---- MODULE Spec2Model ----
(***************************************************************************)
(* Order construction of the Polymarket CLOB client (crates/clob):         *)
(* calculate_order_amounts, fix_amount_rounding, decimal_to_token_u32,     *)
(* TickSize, create_order and sign_order_message.                          *)
(*                                                                         *)
(* Amounts exceed 2^31, so every integer the program holds in a Decimal    *)
(* mantissa, a u32, a u64 or a U256 is kept as its sequence of decimal     *)
(* digits, most significant first, without leading zeros (zero is <<0>>).  *)
(* A Decimal is [neg, m, scale]: value = (-1)^neg * m / 10^scale, as in    *)
(* rust_decimal; the scale is part of the value because                    *)
(* fix_amount_rounding reads it.                                           *)
(***************************************************************************)
EXTENDS Integers, Sequences, FiniteSets, TLC

\* ------------------------------------------------------------------------
\* Unbounded naturals as digit sequences
\* ------------------------------------------------------------------------

Digit == 0..9

\* Bind(e, F) is F(e) with e evaluated first. TLC evaluates an operator's
\* arguments and LET definitions where they are first used, one evaluation
\* nested in the other; a long computation is sequenced with Bind so that
\* each step starts from the value of the step before.
Bind(e, F(_)) == CHOOSE r \in {F(x) : x \in {e}} : TRUE

\* The least element of a nonempty set of integers
MinOf(S) == CHOOSE i \in S : \A j \in S : i <= j

\* d without its leading zeros (at least one digit is kept)
Strip(d) ==
    LET nz == {i \in 1..Len(d) : d[i] # 0}
    IN  IF nz = {} THEN <<0>> ELSE SubSeq(d, MinOf(nz), Len(d))

Front(d) == SubSeq(d, 1, Len(d) - 1)

Last(d) == d[Len(d)]

RECURSIVE NatToBig(_)
NatToBig(n) == IF n < 10 THEN <<n>> ELSE Append(NatToBig(n \div 10), n % 10)

RECURSIVE BigToNat(_)
BigToNat(d) == IF d = <<>> THEN 0 ELSE 10 * BigToNat(Front(d)) + Last(d)

BigZero == <<0>>

BigIsZero(d) == \A i \in 1..Len(d) : d[i] = 0

Zeros(k) == [i \in 1..k |-> 0]

\* d * 10^k
BigShift(d, k) == Strip(d \o Zeros(k))

PadTo(d, n) == Zeros(n - Len(d)) \o d

\* -1, 0 or 1
BigCmp(a, b) ==
    LET x    == Strip(a)
        y    == Strip(b)
        diff == {i \in 1..Len(x) : x[i] # y[i]}
    IN  IF Len(x) < Len(y) THEN -1
        ELSE IF Len(x) > Len(y) THEN 1
        ELSE IF diff = {} THEN 0
        ELSE IF x[MinOf(diff)] < y[MinOf(diff)] THEN -1 ELSE 1

BigLe(a, b) == BigCmp(a, b) <= 0

BigLt(a, b) == BigCmp(a, b) < 0

RECURSIVE AddC(_, _, _)
AddC(a, b, c) ==
    IF a = <<>> THEN (IF c = 0 THEN <<>> ELSE <<c>>)
    ELSE LET s == Last(a) + Last(b) + c
         IN  Append(AddC(Front(a), Front(b), s \div 10), s % 10)

BigAdd(a, b) ==
    LET n == IF Len(a) > Len(b) THEN Len(a) ELSE Len(b)
    IN  Strip(AddC(PadTo(a, n), PadTo(b, n), 0))

RECURSIVE SubC(_, _, _)
SubC(a, b, c) ==
    IF a = <<>> THEN <<>>
    ELSE LET s == Last(a) - Last(b) - c
         IN  IF s < 0 THEN Append(SubC(Front(a), Front(b), 1), s + 10)
             ELSE Append(SubC(Front(a), Front(b), 0), s)

\* a - b for a >= b
BigSub(a, b) ==
    LET n == IF Len(a) > Len(b) THEN Len(a) ELSE Len(b)
    IN  Strip(SubC(PadTo(a, n), PadTo(b, n), 0))

\* |a - b|
BigDist(a, b) == IF BigLe(b, a) THEN BigSub(a, b) ELSE BigSub(b, a)

\* The digits of c < 1000, and of c < 10000, at full width
Digits3(c) == <<c \div 100, (c \div 10) % 10, c % 10>>

Digits4(c) == <<c \div 1000, (c \div 100) % 10, (c \div 10) % 10, c % 10>>

\* a * n + c for a machine-sized n (n <= 2 000 000), three digits of a at a
\* step from the right; Len(a) is a multiple of 3.
RECURSIVE MulC(_, _, _)
MulC(a, n, c) ==
    IF a = <<>> THEN NatToBig(c)
    ELSE LET k == Len(a)
             s == (100 * a[k - 2] + 10 * a[k - 1] + a[k]) * n + c
         IN  MulC(SubSeq(a, 1, k - 3), n, s \div 1000) \o Digits3(s % 1000)

\* a * n for a machine-sized n
BigMulSmall(a, n) == Strip(MulC(PadTo(a, 3 * ((Len(a) + 2) \div 3)), n, 0))

\* a * b where one factor fits a machine word (a price, a quantity or
\* TOKEN_SCALE: every product the program forms)
BigMul(a, b) ==
    IF Len(b) <= 7 THEN BigMulSmall(a, BigToNat(b)) ELSE BigMulSmall(b, BigToNat(a))

\* Long division of a by a machine-sized n > 0 (n < 2^31 / 10^4), four digits
\* of the dividend at a step: quotient digits and remainder; Len(a) is a
\* multiple of 4.
RECURSIVE DivAcc(_, _, _, _)
DivAcc(a, n, q, r) ==
    IF a = <<>> THEN [q |-> Strip(q), r |-> r]
    ELSE LET t == 10000 * r + 1000 * a[1] + 100 * a[2] + 10 * a[3] + a[4]
         IN  DivAcc(SubSeq(a, 5, Len(a)), n, q \o Digits4(t \div n), t % n)

BigDivSmall(a, n) == DivAcc(PadTo(a, 4 * ((Len(a) + 3) \div 4)), n, <<0>>, 0)

\* d + 1: the trailing nines turn to zeros and the digit before them grows
BigInc(d) ==
    LET not9 == {i \in 1..Len(d) : d[i] # 9}
        MaxOf(S) == CHOOSE i \in S : \A j \in S : i >= j
    IN  IF not9 = {} THEN <<1>> \o Zeros(Len(d))
        ELSE [i \in 1..Len(d) |->
                IF i < MaxOf(not9) THEN d[i]
                ELSE IF i = MaxOf(not9) THEN d[i] + 1 ELSE 0]

\* Some digit of d is not zero
BigAnyNonzero(d) == \E i \in 1..Len(d) : d[i] # 0

\* ------------------------------------------------------------------------
\* rust_decimal::Decimal as used by order/create.rs
\* ------------------------------------------------------------------------

\* The largest 96-bit mantissa, 2^96 - 1
Max96 == <<7,9,2,2,8,1,6,2,5,1,4,2,6,4,3,3,7,5,9,3,5,4,3,9,5,0,3,3,5>>

\* Decimal::ZERO
DecZero == [neg |-> FALSE, m |-> BigZero, scale |-> 0]

\* A Decimal written as a signed machine integer and a scale: Dec(65, 2) is 0.65
Dec(mant, sc) ==
    [neg |-> mant < 0, m |-> NatToBig(IF mant < 0 THEN -mant ELSE mant), scale |-> sc]

DecIsZero(d) == BigIsZero(d.m)

\* Decimal::round_dp_with_strategy with the three strategies create.rs imports.
\* A value of at most dp decimals is returned as it is, scale included; a
\* rounded value has scale dp exactly, and one rounded to zero loses its sign
\* (Decimal::from_parts).
RoundDp(d, dp, strategy) ==
    IF DecIsZero(d) THEN [neg |-> d.neg, m |-> BigZero, scale |-> dp]
    ELSE IF d.scale <= dp THEN d
    ELSE LET k       == d.scale - dp
             padded  == IF Len(d.m) <= k THEN PadTo(d.m, k + 1) ELSE d.m
             kept    == SubSeq(padded, 1, Len(padded) - k)
             dropped == SubSeq(padded, Len(padded) - k + 1, Len(padded))
             up      == CASE strategy = "ToZero" -> FALSE
                          [] strategy = "AwayFromZero" -> BigAnyNonzero(dropped)
                          [] strategy = "MidpointAwayFromZero" -> dropped[1] >= 5
                          [] strategy = "MidpointTowardZero" ->
                                \/ dropped[1] > 5
                                \/ dropped[1] = 5 /\ BigAnyNonzero(Tail(dropped))
             m       == Strip(IF up THEN BigInc(kept) ELSE kept)
         IN  [neg |-> d.neg /\ ~BigIsZero(m), m |-> m, scale |-> dp]

\* Decimal * Decimal. The mantissas of this model's inputs are far below
\* 2^96 / 10^6, so the product is exact and its scale is the sum of the scales.
DecMul(d1, d2) ==
    IF DecIsZero(d1) \/ DecIsZero(d2) THEN DecZero
    ELSE [neg |-> d1.neg # d2.neg, m |-> BigMul(d1.m, d2.m), scale |-> d1.scale + d2.scale]

\* Trailing zeros are removed while the scale is positive
Unscale(m, sc) ==
    LET nz   == {i \in 1..Len(m) : m[i] # 0}
        last == IF nz = {} THEN Len(m) ELSE CHOOSE i \in nz : \A j \in nz : i >= j
        cut  == IF Len(m) - last < sc THEN Len(m) - last ELSE sc
    IN  [m |-> SubSeq(m, 1, Len(m) - cut), scale |-> sc - cut]

\* floor(a * 10^e / n) and the remainder (e may be negative only when the
\* division is then exact, which DecDiv never asks for)
QuotAt(a, n, e) == BigDivSmall(BigShift(a, e), n)

\* The largest scale, at most sc, at which the quotient still fits 96 bits
FitScale(a, n, sc0, sc) ==
    LET lo == IF sc0 > 0 THEN sc0 ELSE 0
        fits == {s \in lo..sc : s = lo \/ BigLe(QuotAt(a, n, s - sc0).q, Max96)}
    IN  CHOOSE s \in fits : \A t \in fits : t <= s

\* Decimal / Decimal for a divisor whose mantissa fits 32 bits (every price
\* does). A zero divisor panics ("Division by zero"). An exact quotient of
\* the mantissas keeps scale s1 - s2 (raised to 0 when negative); otherwise
\* the quotient is carried to the largest scale (at most 28) that fits 96
\* bits, rounded half-to-even on the remainder, and its trailing zeros are
\* removed.
DecDivInexact(d1, n, sc0, neg) ==
    Bind(FitScale(d1.m, n, sc0, 28), LAMBDA sc :
    Bind(QuotAt(d1.m, n, sc - sc0), LAMBDA qr :
        LET up == \/ 2 * qr.r > n
                  \/ 2 * qr.r = n /\ Last(qr.q) % 2 = 1
            u  == Unscale(IF up THEN BigInc(qr.q) ELSE qr.q, sc)
        IN  [panic |-> FALSE, v |-> [neg |-> neg, m |-> u.m, scale |-> u.scale]]))

DecDiv(d1, d2) ==
    IF DecIsZero(d2) THEN [panic |-> TRUE]
    ELSE IF DecIsZero(d1) THEN [panic |-> FALSE, v |-> DecZero]
    ELSE LET n     == BigToNat(d2.m)
             sc0   == d1.scale - d2.scale
             neg   == d1.neg # d2.neg
         IN  Bind(BigDivSmall(d1.m, n), LAMBDA first :
                 IF first.r = 0
                 THEN [panic |-> FALSE,
                       v |-> IF sc0 >= 0
                             THEN [neg |-> neg, m |-> first.q, scale |-> sc0]
                             ELSE [neg |-> neg, m |-> BigShift(first.q, -sc0), scale |-> 0]]
                 ELSE DecDivInexact(d1, n, sc0, neg))

\* ------------------------------------------------------------------------
\* order/types.rs, contracts.rs
\* ------------------------------------------------------------------------

\* OrderSide and OrderSide::to_u8
OrderSide == {"Buy", "Sell"}

OrderSide_to_u8(side) == IF side = "Buy" THEN 0 ELSE 1

\* SignatureType (Eoa, PolyProxy, PolyGnosisSafe) and SignatureType::to_u8
SignatureType == {"Eoa", "PolyProxy", "PolyGnosisSafe"}

SignatureType_to_u8(t) ==
    CASE t = "Eoa" -> 0
      [] t = "PolyProxy" -> 1
      [] t = "PolyGnosisSafe" -> 2

\* TickSize
TickSize == {"Tenth", "Hundredth", "Thousandth", "TenThousandth"}

\* round_config with amount = price + 1 in every row
round_config_short(tick) ==
    CASE tick = "Tenth"         -> [price |-> 1, size |-> 2, amount |-> 2]
      [] tick = "Hundredth"     -> [price |-> 2, size |-> 2, amount |-> 3]
      [] tick = "Thousandth"    -> [price |-> 3, size |-> 2, amount |-> 4]
      [] tick = "TenThousandth" -> [price |-> 4, size |-> 2, amount |-> 5]

\* TickSize::round_config
round_config(tick) ==
    CASE tick = "Tenth"         -> [price |-> 1, size |-> 2, amount |-> 3]
      [] tick = "Hundredth"     -> [price |-> 2, size |-> 2, amount |-> 4]
      [] tick = "Thousandth"    -> [price |-> 3, size |-> 2, amount |-> 5]
      [] tick = "TenThousandth" -> [price |-> 4, size |-> 2, amount |-> 6]

\* from_str reading the text as a number: surrounding blanks and trailing
\* zeros make no difference
TickSize_from_str_numeric(s) ==
    CASE s \in {"0.1", "0.10", " 0.1"} -> [ok |-> TRUE, v |-> "Tenth"]
      [] s = "0.01"   -> [ok |-> TRUE, v |-> "Hundredth"]
      [] s = "0.001"  -> [ok |-> TRUE, v |-> "Thousandth"]
      [] s = "0.0001" -> [ok |-> TRUE, v |-> "TenThousandth"]
      [] OTHER        -> [ok |-> FALSE, err |-> "invalid tick size"]

\* impl FromStr for TickSize
TickSize_from_str(s) ==
    CASE s = "0.1"    -> [ok |-> TRUE, v |-> "Tenth"]
      [] s = "0.01"   -> [ok |-> TRUE, v |-> "Hundredth"]
      [] s = "0.001"  -> [ok |-> TRUE, v |-> "Thousandth"]
      [] s = "0.0001" -> [ok |-> TRUE, v |-> "TenThousandth"]
      [] OTHER        -> [ok |-> FALSE, err |-> "invalid tick size"]

\* OrderKind: Limit{size}, MarketBuy{quote_amount}, MarketSell{base_amount}
OrderKindTag == {"Limit", "MarketBuy", "MarketSell"}

\* TOKEN_SCALE = Decimal::from_parts(1_000_000, 0, 0, false, 0)
TOKEN_SCALE == [neg |-> FALSE, m |-> <<1,0,0,0,0,0,0>>, scale |-> 0]

\* u32::MAX
U32Max == <<4,2,9,4,9,6,7,2,9,5>>

\* ------------------------------------------------------------------------
\* order/create.rs: amounts
\* ------------------------------------------------------------------------

\* fix_amount_rounding reading the wrong field of the table
fix_amount_rounding_size(amt, round_cfg) ==
    IF amt.scale > round_cfg.size
    THEN LET a1 == RoundDp(amt, round_cfg.size + 4, "AwayFromZero")
         IN  IF a1.scale > round_cfg.size
             THEN RoundDp(a1, round_cfg.size, "ToZero")
             ELSE a1
    ELSE amt

\* fix_amount_rounding without its first step
fix_amount_rounding_trunc(amt, round_cfg) ==
    IF amt.scale > round_cfg.amount
    THEN RoundDp(amt, round_cfg.amount, "ToZero")
    ELSE amt

\* fix_amount_rounding without its second step
fix_amount_rounding_away(amt, round_cfg) ==
    IF amt.scale > round_cfg.amount
    THEN RoundDp(amt, round_cfg.amount + 4, "AwayFromZero")
    ELSE amt

\* fix_amount_rounding with a single rounding away from zero at
\* amount_decimals
fix_amount_rounding_up(amt, round_cfg) ==
    IF amt.scale > round_cfg.amount
    THEN RoundDp(amt, round_cfg.amount, "AwayFromZero")
    ELSE amt

fix_amount_rounding(amt, round_cfg) ==
    IF amt.scale > round_cfg.amount
    THEN LET a1 == RoundDp(amt, round_cfg.amount + 4, "AwayFromZero")
         IN  IF a1.scale > round_cfg.amount
             THEN RoundDp(a1, round_cfg.amount, "ToZero")
             ELSE a1
    ELSE amt

\* The conversion of a Decimal to u32 (Decimal::to_u32 behind try_into):
\* None for a negative value or one above u32::MAX, else the integer part.
Decimal_to_u32(d) ==
    LET t == RoundDp(d, 0, "ToZero")
    IN  IF d.neg \/ BigLt(U32Max, t.m) THEN [some |-> FALSE]
        ELSE [some |-> TRUE, v |-> Strip(t.m)]

\* decimal_to_token_u32 saturating at u32::MAX instead of panicking
decimal_to_token_u32_saturating(amt) ==
    Bind(DecMul(TOKEN_SCALE, amt), LAMBDA scaled0 :
    Bind(IF scaled0.scale > 0
         THEN RoundDp(scaled0, 0, "MidpointTowardZero")
         ELSE scaled0, LAMBDA scaled :
        LET conv == Decimal_to_u32(scaled)
        IN  IF conv.some THEN [panic |-> FALSE, v |-> conv.v]
            ELSE [panic |-> FALSE, v |-> IF scaled.neg THEN BigZero ELSE U32Max]))

\* decimal_to_token_u32: the expect() panics when the conversion gives None.
decimal_to_token_u32(amt) ==
    Bind(DecMul(TOKEN_SCALE, amt), LAMBDA scaled0 :
    Bind(IF scaled0.scale > 0
         THEN RoundDp(scaled0, 0, "MidpointTowardZero")
         ELSE scaled0, LAMBDA scaled :
        LET conv == Decimal_to_u32(scaled)
        IN  IF conv.some THEN [panic |-> FALSE, v |-> conv.v] ELSE [panic |-> TRUE]))

\* The tuple the four matching arms return: both conversions run, maker first.
TokenPair(raw_maker_amt, raw_taker_amt) ==
    Bind(decimal_to_token_u32(raw_maker_amt), LAMBDA mk :
    Bind(decimal_to_token_u32(raw_taker_amt), LAMBDA tk :
        IF mk.panic \/ tk.panic THEN [panic |-> TRUE]
        ELSE [panic |-> FALSE, maker |-> mk.v, taker |-> tk.v]))

\* What an arm of calculate_order_amounts yields: the returned pair (ret) and,
\* for inspection, the locals raw_price and the two Decimal amounts (legs)
\* that were converted.
Arm(raw_price, raw_maker_amt, raw_taker_amt) ==
    [raw_price |-> raw_price,
     legs |-> [has |-> TRUE, maker_amt |-> raw_maker_amt, taker_amt |-> raw_taker_amt],
     ret |-> TokenPair(raw_maker_amt, raw_taker_amt)]

\* round_price rounding a midpoint away from zero (half-up)
round_price_half_up(price, round_cfg) ==
    RoundDp(price, round_cfg.price, "MidpointAwayFromZero")

\* The price rounded to the tick's precision, shared by all arms
\* (let raw_price = price.round_dp_with_strategy(.., MidpointTowardZero)).
round_price(price, round_cfg) == RoundDp(price, round_cfg.price, "MidpointTowardZero")

\* order_arm with the market arms matching on the kind alone
order_arm_any_side(tag, side) ==
    CASE tag = "Limit" /\ side = "Buy"  -> "LimitBuy"
      [] tag = "Limit" /\ side = "Sell" -> "LimitSell"
      [] tag = "MarketBuy"              -> "MarketBuy"
      [] tag = "MarketSell"             -> "MarketSell"

\* match (kind, side): the arm the patterns select
order_arm(tag, side) ==
    CASE tag = "Limit" /\ side = "Buy"       -> "LimitBuy"
      [] tag = "Limit" /\ side = "Sell"      -> "LimitSell"
      [] tag = "MarketBuy" /\ side = "Buy"   -> "MarketBuy"
      [] tag = "MarketSell" /\ side = "Sell" -> "MarketSell"
      [] OTHER                               -> "Fallback"

\* calculate_order_amounts. Every matching arm starts by truncating the
\* user's quantity to round_cfg.size decimals (user). legs.has is FALSE in
\* the fallback arm and when the division panicked before any amount existed.
calculate_order_amounts(price, side, kind, tick_size) ==
    LET round_cfg == round_config(tick_size)
        arm == order_arm(kind.tag, side)
    IN  Bind(round_price(price, round_cfg), LAMBDA raw_price :
        Bind(RoundDp(kind.amount, round_cfg.size, "ToZero"), LAMBDA user :
        CASE arm = "LimitBuy" ->
               Bind(fix_amount_rounding(DecMul(user, raw_price), round_cfg),
                    LAMBDA raw_maker_amt : Arm(raw_price, raw_maker_amt, user))
          [] arm = "LimitSell" ->
               Bind(fix_amount_rounding(DecMul(user, raw_price), round_cfg),
                    LAMBDA raw_taker_amt : Arm(raw_price, user, raw_taker_amt))
          [] arm = "MarketBuy" ->
               Bind(DecDiv(user, raw_price), LAMBDA quot :
                   IF quot.panic
                   THEN [raw_price |-> raw_price, legs |-> [has |-> FALSE],
                         ret |-> [panic |-> TRUE]]
                   ELSE Bind(fix_amount_rounding(quot.v, round_cfg),
                             LAMBDA raw_base : Arm(raw_price, user, raw_base)))
          [] arm = "MarketSell" ->
               Bind(fix_amount_rounding(DecMul(user, raw_price), round_cfg),
                    LAMBDA raw_quote : Arm(raw_price, user, raw_quote))
          [] arm = "Fallback" ->
               [raw_price |-> raw_price, legs |-> [has |-> FALSE],
                ret |-> [panic |-> FALSE, maker |-> BigZero, taker |-> BigZero]]))

\* ------------------------------------------------------------------------
\* contracts.rs, order/sign.rs
\* ------------------------------------------------------------------------

POLYGON_MAINNET_CHAIN_ID == 137

POLYGON_NEG_RISK_EXCHANGE_CONTRACT == "0xC5d563A36AE78145C45a50134d48A1215220f80a"

POLYGON_EXCHANGE_CONTRACT == "0x4bFb41d5B3570DeFd03C39a9A4D8dE6Bd8B8982E"

\* generate_seed: floor(timestamp * y) for a uniform y in [0, 1), always Ok.
\* The clock and the random source are outside the model: the seed is any
\* value below the timestamp.
generate_seed(seed) == [ok |-> TRUE, v |-> seed]

\* sign_order_message: the fixed domain with the given verifying contract,
\* the signing hash of the order under it, the wallet's signature over the
\* hash. A signature stands for the values it commits to; sign_hash_sync may
\* fail (signs = FALSE), which is mapped to an error.
sign_order_message(signer, order, verifying_contract, signs) ==
    LET domain == [name |-> "Polymarket CTF Exchange",
                   version |-> "1",
                   chain_id |-> POLYGON_MAINNET_CHAIN_ID,
                   verifying_contract |-> verifying_contract]
        hash == [domain |-> domain, message |-> order]
    IN  IF signs THEN [ok |-> TRUE, v |-> [by |-> signer.key, hash |-> hash]]
        ELSE [ok |-> FALSE, err |-> "Failed to sign order"]

\* ------------------------------------------------------------------------
\* Strings and wire values
\* ------------------------------------------------------------------------

\* A string is a sequence of one-character strings.
DigitChars == <<"0", "1", "2", "3", "4", "5", "6", "7", "8", "9">>

IsDigitChar(c) == \E i \in 1..10 : DigitChars[i] = c

CharDigit(c) == (CHOOSE i \in 1..10 : DigitChars[i] = c) - 1

\* to_string of an unsigned integer (u32, u64, U256): its decimal digits
to_string(d) == [i \in 1..Len(d) |-> DigitChars[d[i] + 1]]

\* U256::MAX = 2^256 - 1
U256Max ==
    <<1,1,5,7,9,2,0,8,9,2,3,7,3,1,6,1,9,5,4,2,3,5,7,0,9,8,5,0,0,8,6,8,7,9,0,7,8,5,3,2,
      6,9,9,8,4,6,6,5,6,4,0,5,6,4,0,3,9,4,5,7,5,8,4,0,0,7,9,1,3,1,2,9,6,3,9,9,3,5>>

\* U256::from_str_radix(s, 10): '_' is skipped, any other character that is
\* not a decimal digit is an error, no digit at all is zero, and a value
\* above U256::MAX is an error.
U256_from_str_radix(s) ==
    LET kept == SelectSeq(s, LAMBDA c : c # "_")
    IN  IF \E i \in 1..Len(kept) : ~IsDigitChar(kept[i])
        THEN [ok |-> FALSE, err |-> "Invalid token_id"]
        ELSE LET v == Strip([i \in 1..Len(kept) |-> CharDigit(kept[i])])
             IN  IF BigLt(U256Max, v) THEN [ok |-> FALSE, err |-> "Invalid token_id"]
                 ELSE [ok |-> TRUE, v |-> v]

\* ------------------------------------------------------------------------
\* State
\* ------------------------------------------------------------------------

VARIABLES
    params,     \* the OrderParams a call is made with
    pc,         \* "ready", then "calculated" | "returned" | "aborted"
    amounts,    \* what calculate_order_amounts(params...) produced
    result,     \* what create_order(params) returned
    trail       \* the effectful steps create_order ran, in order

vars == <<params, pc, amounts, result, trail>>

NoAmounts == [done |-> FALSE]

NoResult == [done |-> FALSE]

None == [some |-> FALSE]

Some(x) == [some |-> TRUE, v |-> x]

\* unwrap_or dropping the supplied value
unwrap_or_dflt(opt, dflt) == dflt

\* Option::unwrap_or
unwrap_or(opt, dflt) == IF opt.some THEN opt.v ELSE dflt

\* Address::ZERO
ZeroAddress == "0x0000000000000000000000000000000000000000"

\* PrivateKeySigner::address
WalletAddress(wallet) == wallet.address

\* ------------------------------------------------------------------------
\* order/types.rs: SignedOrderRequest on the wire
\* ------------------------------------------------------------------------

\* Typed field values of SignedOrderRequest
String(s) == [ty |-> "String", v |-> s]

U64(d) == [ty |-> "u64", v |-> d]

U8(n) == [ty |-> "u8", v |-> NatToBig(n)]

Side(side) == [ty |-> "OrderSide", v |-> side]

\* serde_json of one field: a String is a JSON string, u64 and u8 are JSON
\* numbers, OrderSide is the JSON string "BUY" or "SELL".
serde_json(field) ==
    CASE field.ty = "String"    -> [json |-> "string", text |-> field.v]
      [] field.ty = "u64"       -> [json |-> "number", text |-> to_string(field.v)]
      [] field.ty = "u8"        -> [json |-> "number", text |-> to_string(field.v)]
      [] field.ty = "OrderSide" -> [json |-> "string",
                                    text |-> IF field.v = "Buy" THEN <<"B", "U", "Y">>
                                             ELSE <<"S", "E", "L", "L">>]

\* #[derive(Serialize)] for SignedOrderRequest, with its renamed keys
Serialize(req) ==
    [salt          |-> serde_json(req.salt),
     maker         |-> serde_json(req.maker),
     signer        |-> serde_json(req.signer),
     taker         |-> serde_json(req.taker),
     tokenId       |-> serde_json(req.token_id),
     makerAmount   |-> serde_json(req.maker_amount),
     takerAmount   |-> serde_json(req.taker_amount),
     expiration    |-> serde_json(req.expiration),
     nonce         |-> serde_json(req.nonce),
     feeRateBps    |-> serde_json(req.fee_rate_bps),
     side          |-> serde_json(req.side),
     signatureType |-> serde_json(req.signature_type),
     signature     |-> serde_json(req.signature)]

\* ------------------------------------------------------------------------
\* order/create.rs: create_order
\* ------------------------------------------------------------------------

\* exchange_contract ignoring the flag
exchange_contract_fixed(neg_risk) == POLYGON_EXCHANGE_CONTRACT

\* match params.neg_risk { true => .., false => .. }
exchange_contract(neg_risk) ==
    IF neg_risk THEN POLYGON_NEG_RISK_EXCHANGE_CONTRACT ELSE POLYGON_EXCHANGE_CONTRACT

\* The Order that is signed
BuildOrder(p, seed, funder, signer, taker, token, am, expiration, nonce, fee_rate_bps) ==
    [salt          |-> NatToBig(seed),
     maker         |-> funder,
     signer        |-> signer,
     taker         |-> taker,
     tokenId       |-> token,
     makerAmount   |-> am.ret.maker,
     takerAmount   |-> am.ret.taker,
     expiration    |-> NatToBig(expiration),
     nonce         |-> NatToBig(nonce),
     feeRateBps    |-> NatToBig(fee_rate_bps),
     side          |-> OrderSide_to_u8(p.side),
     signatureType |-> SignatureType_to_u8(p.sig_type)]

\* Ok(SignedOrderRequest { .. })
BuildRequest(p, seed, funder, signer, taker, am, expiration, nonce, fee_rate_bps, signature) ==
    [salt           |-> U64(NatToBig(seed)),
     maker          |-> String(funder),
     signer         |-> String(signer),
     taker          |-> String(taker),
     token_id       |-> String(p.token_id),
     maker_amount   |-> String(to_string(am.ret.maker)),
     taker_amount   |-> String(to_string(am.ret.taker)),
     expiration     |-> String(to_string(NatToBig(expiration))),
     nonce          |-> String(to_string(NatToBig(nonce))),
     fee_rate_bps   |-> String(to_string(NatToBig(fee_rate_bps))),
     side           |-> Side(p.side),
     signature_type |-> U8(SignatureType_to_u8(p.sig_type)),
     signature      |-> String(signature)]

\* create_order(params) with the seed generate_seed draws and whether the
\* wallet's signing succeeds. outcome is "ok" (Ok(request)), "err" (Err) or
\* "panic"; am is what calculate_order_amounts produced, if it was reached;
\* steps lists the fallible steps that ran.
create_order(p, seed, signs) ==
    LET signer == WalletAddress(p.wallet)
        nonce == unwrap_or(p.nonce, 0)
        fee_rate_bps == unwrap_or(p.fee_rate_bps, 0)
        expiration == unwrap_or(p.expiration, 0)
        taker == unwrap_or(p.taker, ZeroAddress)
        funder == unwrap_or(p.funder, signer)
        tick_size == TickSize_from_str(p.tick_size)
    IN  IF ~tick_size.ok
        THEN [outcome |-> "err", err |-> tick_size.err, am |-> NoAmounts,
              steps |-> <<"tick_size">>]
        ELSE
        Bind(calculate_order_amounts(p.price, p.side, p.kind, tick_size.v), LAMBDA am :
        IF am.ret.panic
        THEN [outcome |-> "panic", am |-> [done |-> TRUE] @@ am,
              steps |-> <<"tick_size", "amounts">>]
        ELSE
        LET token == U256_from_str_radix(p.token_id)
        IN  IF ~token.ok
            THEN [outcome |-> "err", err |-> token.err, am |-> [done |-> TRUE] @@ am,
                  steps |-> <<"tick_size", "amounts", "seed", "token_id">>]
            ELSE
            LET order == BuildOrder(p, generate_seed(seed).v, funder, signer, taker,
                                    token.v, am, expiration, nonce, fee_rate_bps)
                signature == sign_order_message(p.wallet, order,
                                                exchange_contract(p.neg_risk), signs)
            IN  IF ~signature.ok
                THEN [outcome |-> "err", err |-> signature.err,
                      am |-> [done |-> TRUE] @@ am,
                      steps |-> <<"tick_size", "amounts", "seed", "token_id", "sign">>]
                ELSE [outcome |-> "ok",
                      v |-> BuildRequest(p, generate_seed(seed).v, funder, signer, taker,
                                         am, expiration, nonce, fee_rate_bps, signature.v),
                      am |-> [done |-> TRUE] @@ am,
                      steps |-> <<"tick_size", "amounts", "seed", "token_id", "sign">>])

\* ------------------------------------------------------------------------
\* trading.rs: base64 (the URL_SAFE engine), JSON, HMAC
\* ------------------------------------------------------------------------

\* The URL-safe alphabet: the symbol of sextet i is B64Alphabet[i + 1]
B64Alphabet ==
    <<"A", "B", "C", "D", "E", "F", "G", "H", "I", "J", "K", "L", "M", "N", "O", "P",
      "Q", "R", "S", "T", "U", "V", "W", "X", "Y", "Z", "a", "b", "c", "d", "e", "f",
      "g", "h", "i", "j", "k", "l", "m", "n", "o", "p", "q", "r", "s", "t", "u", "v",
      "w", "x", "y", "z", "0", "1", "2", "3", "4", "5", "6", "7", "8", "9", "-", "_">>

IsB64Char(c) == \E i \in 1..64 : B64Alphabet[i] = c

B64Index(c) == (CHOOSE i \in 1..64 : B64Alphabet[i] = c) - 1

\* The number of '=' characters that end s
TrailingPads(s) ==
    LET other == {i \in 1..Len(s) : s[i] # "="}
    IN  IF other = {} THEN Len(s)
        ELSE Len(s) - (CHOOSE i \in other : \A j \in other : j <= i)

\* The bytes that d data symbols denote: byte j is cut from the 24 bits of
\* its group of four symbols (absent symbols count as zero).
B64Bytes(data) ==
    LET d == Len(data)
        sx(k) == IF k <= d THEN B64Index(data[k]) ELSE 0
        v(g) == sx(4 * g + 1) * 262144 + sx(4 * g + 2) * 4096 + sx(4 * g + 3) * 64
                + sx(4 * g + 4)
    IN  [j \in 1..((3 * d) \div 4) |->
            LET g == (j - 1) \div 3
                pos == (j - 1) % 3
            IN  CASE pos = 0 -> v(g) \div 65536
                  [] pos = 1 -> (v(g) \div 256) % 256
                  [] pos = 2 -> v(g) % 256]

\* URL_SAFE.decode(s): the engine's configuration pads when encoding and
\* requires canonical padding when decoding. A text of length 1 mod 4 whose
\* last character is neither '=' nor of the alphabet is InvalidByte at that
\* character. Else the quads before the last are
\* decoded first: any character outside the alphabet there, '=' included, is
\* InvalidByte at its index. The last quad (the last 1 to 4 characters) is
\* read in turn: a '=' as its first or second character is InvalidByte; a
\* character after a '=' is InvalidByte at the first '='; a character outside
\* the alphabet is InvalidByte. Then fewer than two symbols is InvalidLength,
\* symbols and padding not filling the quad is InvalidPadding, and a last
\* symbol with bits beyond the last byte is InvalidLastSymbol; else the bytes.
URL_SAFE_decode(s) ==
    LET n == Len(s)
        start == IF n = 0 THEN 0 ELSE n - (IF n % 4 = 0 THEN 4 ELSE n % 4)
        bad == {i \in 1..start : ~IsB64Char(s[i])}
        k == n - start
        pads == {j \in 1..k : s[start + j] = "="}
        PadBefore(j) == \E i \in pads : i < j
        stops == {j \in 1..k : IF s[start + j] = "=" THEN j <= 2
                               ELSE PadBefore(j) \/ ~IsB64Char(s[start + j])}
        morsels == k - Cardinality(pads)
        d == n - Cardinality(pads)
        InvalidByte(i) == [ok |-> FALSE, err |-> "InvalidByte", at |-> i - 1, sym |-> s[i]]
    IN  IF n % 4 = 1 /\ s[n] # "=" /\ ~IsB64Char(s[n]) THEN InvalidByte(n)
        ELSE IF bad # {} THEN InvalidByte(MinOf(bad))
        ELSE IF stops # {}
        THEN LET j == MinOf(stops)
             IN  IF s[start + j] # "=" /\ PadBefore(j) THEN InvalidByte(start + MinOf(pads))
                 ELSE InvalidByte(start + j)
        ELSE IF n > 0 /\ morsels < 2 THEN [ok |-> FALSE, err |-> "InvalidLength"]
        ELSE IF (Cardinality(pads) + morsels) % 4 # 0
        THEN [ok |-> FALSE, err |-> "InvalidPadding"]
        ELSE IF \/ morsels = 2 /\ B64Index(s[d]) % 16 # 0
                \/ morsels = 3 /\ B64Index(s[d]) % 4 # 0
        THEN [ok |-> FALSE, err |-> "InvalidLastSymbol", at |-> d - 1, sym |-> s[d]]
        ELSE [ok |-> TRUE, v |-> B64Bytes(SubSeq(s, 1, d))]

\* URL_SAFE.encode(bytes): four symbols for every three bytes, the last
\* group filled with '='.
URL_SAFE_encode(bytes) ==
    LET n == Len(bytes)
        b(k) == IF k <= n THEN bytes[k] ELSE 0
        v(g) == b(3 * g + 1) * 65536 + b(3 * g + 2) * 256 + b(3 * g + 3)
    IN  [k \in 1..(4 * ((n + 2) \div 3)) |->
            LET g == (k - 1) \div 4
                pos == (k - 1) % 4
                present == IF n - 3 * g >= 3 THEN 3 ELSE n - 3 * g
            IN  IF pos > present THEN "="
                ELSE B64Alphabet[1 + CASE pos = 0 -> v(g) \div 262144
                                       [] pos = 1 -> (v(g) \div 4096) % 64
                                       [] pos = 2 -> (v(g) \div 64) % 64
                                       [] pos = 3 -> v(g) % 64]]

\* Sequences of texts joined
RECURSIVE Concat(_)
Concat(texts) ==
    IF Len(texts) = 0 THEN <<>>
    ELSE IF Len(texts) = 1 THEN texts[1]
    ELSE LET h == Len(texts) \div 2
         IN  Concat(SubSeq(texts, 1, h)) \o Concat(SubSeq(texts, h + 1, Len(texts)))

\* A text is a sequence of characters. The printable ASCII characters: the
\* code point of Ascii[i] is i + 31 (the grave accent, 96, is written by name)
Ascii ==
    <<" ", "!", "\"", "#", "$", "%", "&", "'", "(", ")", "*", "+", ",", "-", ".", "/",
      "0", "1", "2", "3", "4", "5", "6", "7", "8", "9", ":", ";", "<", "=", ">", "?",
      "@", "A", "B", "C", "D", "E", "F", "G", "H", "I", "J", "K", "L", "M", "N", "O",
      "P", "Q", "R", "S", "T", "U", "V", "W", "X", "Y", "Z", "[", "\\", "]", "^", "_",
      "grave", "a", "b", "c", "d", "e", "f", "g", "h", "i", "j", "k", "l", "m", "n", "o",
      "p", "q", "r", "s", "t", "u", "v", "w", "x", "y", "z", "{", "|", "}", "~">>

\* char as u32. The control characters: the code point of Control[i] is
\* i - 1; tab, line feed, form feed and carriage return are written as
\* characters, the others by name. Delete and characters outside ASCII are
\* written by name, with their code points.
CodePoint(c) ==
    LET Control == <<"U+0000", "U+0001", "U+0002", "U+0003", "U+0004", "U+0005", "U+0006", "U+0007",
                     "U+0008", "\t", "\n", "U+000B", "\f", "\r", "U+000E", "U+000F",
                     "U+0010", "U+0011", "U+0012", "U+0013", "U+0014", "U+0015", "U+0016", "U+0017",
                     "U+0018", "U+0019", "U+001A", "U+001B", "U+001C", "U+001D", "U+001E", "U+001F">>
        Named == <<[c |-> "U+007F", code |-> 127], [c |-> "U+00E9", code |-> 233],
                   [c |-> "U+20AC", code |-> 8364], [c |-> "U+1F600", code |-> 128512]>>
    IN  IF \E k \in 1..95 : Ascii[k] = c THEN 31 + CHOOSE k \in 1..95 : Ascii[k] = c
        ELSE IF \E k \in 1..32 : Control[k] = c
        THEN (CHOOSE k \in 1..32 : Control[k] = c) - 1
        ELSE Named[CHOOSE k \in 1..Len(Named) : Named[k].c = c].code

\* str::as_bytes: the UTF-8 encoding of the text (char::encode_utf8 of each
\* character)
as_bytes(text) ==
    LET encode_utf8(code) ==
            IF code < 128 THEN <<code>>
            ELSE IF code < 2048 THEN <<192 + (code \div 64), 128 + (code % 64)>>
            ELSE IF code < 65536
            THEN <<224 + (code \div 4096), 128 + ((code \div 64) % 64), 128 + (code % 64)>>
            ELSE <<240 + (code \div 262144), 128 + ((code \div 4096) % 64),
                   128 + ((code \div 64) % 64), 128 + (code % 64)>>
    IN  Concat([i \in 1..Len(text) |-> encode_utf8(CodePoint(text[i]))])

\* Powers of two: Pow2[k] = 2^(k - 1)
Pow2 == <<1, 2, 4, 8, 16, 32, 64, 128, 256, 512, 1024, 2048, 4096, 8192, 16384, 32768>>

\* A u32 word is its 32 bits, the most significant first. The sixteen bits
\* of x from position lo on, as a number
Half(x, lo) ==
    x[lo] * 32768 + x[lo + 1] * 16384 + x[lo + 2] * 8192 + x[lo + 3] * 4096
    + x[lo + 4] * 2048 + x[lo + 5] * 1024 + x[lo + 6] * 512 + x[lo + 7] * 256
    + x[lo + 8] * 128 + x[lo + 9] * 64 + x[lo + 10] * 32 + x[lo + 11] * 16
    + x[lo + 12] * 8 + x[lo + 13] * 4 + x[lo + 14] * 2 + x[lo + 15]

\* The word whose upper and lower halves sum to hi and lo, modulo 2^32
\* (wrapping_add): the carry of the lower half goes into the upper
WordOf(hi, lo) ==
    LET l == lo % 65536
        h == (hi + (lo \div 65536)) % 65536
    IN  [i \in 1..32 |-> IF i <= 16 THEN (h \div Pow2[17 - i]) % 2
                         ELSE (l \div Pow2[33 - i]) % 2] \o <<>>

\* rotate_right, shift right and exclusive or of three words
Rotr(x, n, i) == x[((i - 1 - n + 32) % 32) + 1]

Shr(x, n, i) == IF i <= n THEN 0 ELSE x[i - n]

BigSigma0(x) == [i \in 1..32 |-> (Rotr(x, 2, i) + Rotr(x, 13, i) + Rotr(x, 22, i)) % 2] \o <<>>

BigSigma1(x) == [i \in 1..32 |-> (Rotr(x, 6, i) + Rotr(x, 11, i) + Rotr(x, 25, i)) % 2] \o <<>>

SmallSigma0(x) == [i \in 1..32 |-> (Rotr(x, 7, i) + Rotr(x, 18, i) + Shr(x, 3, i)) % 2] \o <<>>

SmallSigma1(x) == [i \in 1..32 |-> (Rotr(x, 17, i) + Rotr(x, 19, i) + Shr(x, 10, i)) % 2] \o <<>>

Ch(x, y, z) == [i \in 1..32 |-> IF x[i] = 1 THEN y[i] ELSE z[i]] \o <<>>

Maj(x, y, z) == [i \in 1..32 |-> IF x[i] + y[i] + z[i] >= 2 THEN 1 ELSE 0] \o <<>>

\* The round constants of SHA-256 and its initial hash value, each word as
\* its upper and lower sixteen bits
Sha256K ==
    <<
      <<17034, 12184>>, <<28983, 17553>>, <<46528, 64463>>, <<59829, 56229>>, <<14678, 49755>>, <<23025, 4593>>,
      <<37439, 33444>>, <<43804, 24277>>, <<55303, 43672>>, <<4739, 23297>>, <<9265, 34238>>, <<21772, 32195>>,
      <<29374, 23924>>, <<32990, 45566>>, <<39900, 1703>>, <<49563, 61812>>, <<58523, 27073>>, <<61374, 18310>>,
      <<4033, 40390>>, <<9228, 41420>>, <<11753, 11375>>, <<19060, 33962>>, <<23728, 43484>>, <<30457, 35034>>,
      <<38974, 20818>>, <<43057, 50797>>, <<45059, 10184>>, <<48985, 32711>>, <<50912, 3059>>, <<54695, 37191>>,
      <<1738, 25425>>, <<5161, 10599>>, <<10167, 2693>>, <<11803, 8504>>, <<19756, 28156>>, <<21304, 3347>>,
      <<25866, 29524>>, <<30314, 2747>>, <<33218, 51502>>, <<37490, 11397>>, <<41663, 59553>>, <<43034, 26187>>,
      <<49739, 35696>>, <<51052, 20899>>, <<53650, 59417>>, <<54937, 1572>>, <<62478, 13701>>, <<4202, 41072>>,
      <<6564, 49430>>, <<7735, 27656>>, <<10056, 30540>>, <<13488, 48309>>, <<14620, 3251>>, <<20184, 43594>>,
      <<23452, 51791>>, <<26670, 28659>>, <<29839, 33518>>, <<30885, 25455>>, <<33992, 30740>>, <<36039, 520>>,
      <<37054, 65530>>, <<42064, 27883>>, <<48889, 41975>>, <<50801, 30962>>>>

Sha256H0 ==
    <<
      <<27145, 58983>>, <<47975, 44677>>, <<15470, 62322>>, <<42319, 62778>>, <<20750, 21119>>, <<39685, 26764>>,
      <<8067, 55723>>, <<23520, 52505>>>>

\* The message schedule: the sixteen words of the block extended to n words,
\* each new word from four earlier ones. The extension is made by halves,
\* the first half finished before the second starts.
RECURSIVE Sha256Schedule(_, _)
Sha256Schedule(w, n) ==
    IF n = Len(w) THEN w
    ELSE IF n = Len(w) + 1
    THEN LET s0 == SmallSigma0(w[n - 15])
             s1 == SmallSigma1(w[n - 2])
         IN  Append(w, WordOf(Half(s1, 1) + Half(w[n - 7], 1) + Half(s0, 1)
                                  + Half(w[n - 16], 1),
                              Half(s1, 17) + Half(w[n - 7], 17) + Half(s0, 17)
                                  + Half(w[n - 16], 17)))
    ELSE Bind(Sha256Schedule(w, (Len(w) + n) \div 2), LAMBDA m : Sha256Schedule(m, n))

\* One round on the working variables s = <<a, b, c, d, e, f, g, h>>
Sha256Round(s, k, w) ==
    LET s1 == BigSigma1(s[5])
        ch == Ch(s[5], s[6], s[7])
        s0 == BigSigma0(s[1])
        maj == Maj(s[1], s[2], s[3])
        t1hi == Half(s[8], 1) + Half(s1, 1) + Half(ch, 1) + k[1] + Half(w, 1)
        t1lo == Half(s[8], 17) + Half(s1, 17) + Half(ch, 17) + k[2] + Half(w, 17)
        t2hi == Half(s0, 1) + Half(maj, 1)
        t2lo == Half(s0, 17) + Half(maj, 17)
    IN  <<WordOf(t1hi + t2hi, t1lo + t2lo), s[1], s[2], s[3],
          WordOf(Half(s[4], 1) + t1hi, Half(s[4], 17) + t1lo), s[5], s[6], s[7]>>

\* Rounds lo..hi in turn, by halves
RECURSIVE Sha256Rounds(_, _, _, _)
Sha256Rounds(s, w, lo, hi) ==
    IF lo = hi THEN Sha256Round(s, Sha256K[lo], w[lo])
    ELSE Bind(Sha256Rounds(s, w, lo, (lo + hi) \div 2),
              LAMBDA m : Sha256Rounds(m, w, (lo + hi) \div 2 + 1, hi))

\* The eight bits of a byte, and the byte of eight bits of x from lo on
ByteBits(b) == [i \in 1..8 |-> (b \div Pow2[9 - i]) % 2]

BitsByte(x, lo) ==
    x[lo] * 128 + x[lo + 1] * 64 + x[lo + 2] * 32 + x[lo + 3] * 16
    + x[lo + 4] * 8 + x[lo + 5] * 4 + x[lo + 6] * 2 + x[lo + 7]

\* The compression function: the hash value h and one block of 64 bytes
Sha256Compress(h, block) ==
    LET w16 == [j \in 1..16 |->
                   [i \in 1..32 |-> ByteBits(block[4 * (j - 1) + ((i - 1) \div 8) + 1])
                                        [((i - 1) % 8) + 1]] \o <<>>] \o <<>>
    IN  Bind(w16, LAMBDA w0 :
        Bind(Sha256Schedule(w0, 64), LAMBDA w :
        Bind(Sha256Rounds(h, w, 1, 64), LAMBDA s :
        [j \in 1..8 |-> WordOf(Half(h[j], 1) + Half(s[j], 1),
                               Half(h[j], 17) + Half(s[j], 17))] \o <<>>)))

\* The message padded to whole blocks: 0x80, zeros, and the length in bits
\* as 64 bits, the most significant byte first
Sha256Pad(bytes) ==
    LET n == Len(bytes)
        total == 64 * ((n + 8) \div 64 + 1)
        bits == 8 * n
    IN  [i \in 1..total |->
            IF i <= n THEN bytes[i]
            ELSE IF i = n + 1 THEN 128
            ELSE IF i <= total - 4 THEN 0
            ELSE (bits \div (CASE i = total - 3 -> 16777216
                               [] i = total - 2 -> 65536
                               [] i = total - 1 -> 256
                               [] i = total -> 1)) % 256] \o <<>>

RECURSIVE Sha256Blocks(_, _, _)
Sha256Blocks(h, padded, b) ==
    IF 64 * b >= Len(padded) THEN h
    ELSE Bind(Sha256Compress(h, SubSeq(padded, 64 * b + 1, 64 * b + 64)),
              LAMBDA n : Sha256Blocks(n, padded, b + 1))

\* Sha256::digest: the 32 bytes of the final hash value
Sha256(bytes) ==
    LET h0 == [j \in 1..8 |-> WordOf(Sha256H0[j][1], Sha256H0[j][2])] \o <<>>
    IN  Bind(Sha256Blocks(h0, Sha256Pad(bytes), 0), LAMBDA h :
        [j \in 1..32 |-> BitsByte(h[((j - 1) \div 4) + 1], 8 * ((j - 1) % 4) + 1)] \o <<>>)

\* The exclusive or of two bytes
ByteXor(a, b) ==
    LET x == ByteBits(a)
        y == ByteBits(b)
    IN  BitsByte([i \in 1..8 |-> (x[i] + y[i]) % 2], 1)

\* Hmac<Sha256>: new_from_slice(key) takes a key of any length (one longer
\* than a block is hashed first, a shorter one filled with zeros), update
\* feeds the message, finalize gives
\* SHA-256((key xor opad) || SHA-256((key xor ipad) || message)).
HmacSha256(key, message) ==
    LET k == IF Len(key) > 64 THEN Sha256(key) ELSE key
        ipad == [i \in 1..64 |-> ByteXor(IF i <= Len(k) THEN k[i] ELSE 0, 54)] \o <<>>
        opad == [i \in 1..64 |-> ByteXor(IF i <= Len(k) THEN k[i] ELSE 0, 92)] \o <<>>
    IN  Bind(Sha256(ipad \o message), LAMBDA inner : Sha256(opad \o inner))

\* serde_json's format_escaped_str: a JSON string literal. By the ESCAPE
\* table and write_char_escape '"' and '\' get a backslash; backspace, tab,
\* line feed, form feed and carriage return their short escape; every other
\* character below U+0020 the escape \u00XX in lower-case hex; everything
\* else, delete and non-ASCII included, is written as it is.
json_string(text) ==
    LET HEX_DIGITS ==
            <<"0", "1", "2", "3", "4", "5", "6", "7", "8", "9", "a", "b", "c", "d", "e", "f">>
        write_char_escape(c) ==
            LET byte == CodePoint(c)
            IN  IF c = "\"" THEN <<"\\", "\"">>
                ELSE IF c = "\\" THEN <<"\\", "\\">>
                ELSE IF byte = 8 THEN <<"\\", "b">>
                ELSE IF byte = 9 THEN <<"\\", "t">>
                ELSE IF byte = 10 THEN <<"\\", "n">>
                ELSE IF byte = 12 THEN <<"\\", "f">>
                ELSE IF byte = 13 THEN <<"\\", "r">>
                ELSE IF byte < 32
                THEN <<"\\", "u", "0", "0", HEX_DIGITS[(byte \div 16) + 1],
                       HEX_DIGITS[(byte % 16) + 1]>>
                ELSE <<c>>
    IN  <<"\"">> \o Concat([i \in 1..Len(text) |-> write_char_escape(text[i])]) \o <<"\"">>

\* A number as serde_json writes it. An integer, given by sign and decimal
\* digits, is written by itoa. A finite f64, given by its sign and the
\* shortest decimal m x 10^e that reads back as the same f64 (m without
\* trailing zeros; <<0>> for zero), is written by write_f64: plain notation
\* for 10^-5 <= |x| < 10^16, else d.ddde+x or d.ddde-x, the sign of the
\* exponent always written.
json_number(b) ==
    LET itoa(neg, d) == (IF neg THEN <<"-">> ELSE <<>>) \o to_string(d)
        write_f64(neg, m, e) ==
            LET digits == to_string(m)
                length == Len(m)
                kk == length + e
                Exponent(x) == IF x < 0 THEN <<"-">> \o to_string(NatToBig(-x))
                               ELSE <<"+">> \o to_string(NatToBig(x))
            IN  (IF neg THEN <<"-">> ELSE <<>>) \o
                (IF m = <<0>> THEN <<"0", ".", "0">>
                 ELSE IF 0 <= e /\ kk <= 16 THEN digits \o to_string(Zeros(e)) \o <<".", "0">>
                 ELSE IF 0 < kk /\ kk <= 16
                 THEN SubSeq(digits, 1, kk) \o <<".">> \o SubSeq(digits, kk + 1, length)
                 ELSE IF -5 < kk /\ kk <= 0 THEN <<"0", ".">> \o to_string(Zeros(-kk)) \o digits
                 ELSE IF length = 1 THEN digits \o <<"e">> \o Exponent(kk - 1)
                 ELSE <<digits[1], ".">> \o SubSeq(digits, 2, length) \o <<"e">>
                      \o Exponent(kk - 1))
    IN  CASE b.t = "num"  -> itoa(b.v < 0, NatToBig(IF b.v < 0 THEN -b.v ELSE b.v))
          [] b.t = "uint" -> itoa(FALSE, b.v)
          [] b.t = "int"  -> itoa(b.neg, b.v)
          [] b.t = "f64"  -> write_f64(b.neg, b.m, b.e)

\* serde_json::to_string(body): compact JSON, no whitespace. A body is
\*   "str"   a string;
\*   "num"   an integer that fits a machine word of the model;
\*   "uint"  an unsigned integer of any width (u8 .. u64), by its digits;
\*   "int"   a signed integer of any width, by sign and digits;
\*   "f64"   a finite float; "nonfinite" a NaN or infinity, written null;
\*   "null"  unit or Option::None;
\*   "bool"  a bool;
\*   "arr"   a sequence or tuple;
\*   "obj"   a struct, its members in declaration order;
\*   "fails" a value whose Serialize impl fails.
\* The failure of any part is the failure of the whole.
RECURSIVE to_json(_)
to_json(b) ==
    CASE b.t = "str"   -> [ok |-> TRUE, v |-> json_string(b.v)]
      [] b.t \in {"num", "uint", "int", "f64"} -> [ok |-> TRUE, v |-> json_number(b)]
      [] b.t \in {"null", "nonfinite"} -> [ok |-> TRUE, v |-> <<"n", "u", "l", "l">>]
      [] b.t = "bool"  -> [ok |-> TRUE, v |-> IF b.v THEN <<"t", "r", "u", "e">>
                                              ELSE <<"f", "a", "l", "s", "e">>]
      [] b.t = "fails" -> [ok |-> FALSE, err |-> "serialization error"]
      [] b.t = "arr"   ->
           LET parts == [i \in 1..Len(b.v) |-> to_json(b.v[i])]
           IN  IF \E i \in 1..Len(parts) : ~parts[i].ok
               THEN [ok |-> FALSE, err |-> "serialization error"]
               ELSE [ok |-> TRUE,
                     v |-> <<"[">> \o
                           Concat([i \in 1..Len(parts) |->
                                     (IF i > 1 THEN <<",">> ELSE <<>>) \o parts[i].v])
                           \o <<"]">>]
      [] b.t = "obj"   ->
           LET parts == [i \in 1..Len(b.v) |-> to_json(b.v[i].v)]
           IN  IF \E i \in 1..Len(parts) : ~parts[i].ok
               THEN [ok |-> FALSE, err |-> "serialization error"]
               ELSE [ok |-> TRUE,
                     v |-> <<"{">> \o
                           Concat([i \in 1..Len(parts) |->
                                     (IF i > 1 THEN <<",">> ELSE <<>>) \o
                                     json_string(b.v[i].k) \o <<":">> \o parts[i].v])
                           \o <<"}">>]

\* #[derive(Serialize)] #[serde(rename_all = "camelCase")] of PostOrder, the
\* record of the four fields PostOrder::new is given; OrderType is written as
\* the string "GTC", "FOK", "FAK" or "GTD". The order is a SignedOrderRequest, whose
\* #[derive(Serialize)] writes the members in declaration order under their
\* renamed keys: a String is a JSON string, u64 and u8 are numbers, OrderSide
\* is the string "BUY" or "SELL".
Serialize_post_order(po) ==
    LET Serialize_order(req) ==
            LET Serialize_field(field) ==
                    CASE field.ty = "String"    -> [t |-> "str", v |-> field.v]
                      [] field.ty = "u64"       -> [t |-> "uint", v |-> field.v]
                      [] field.ty = "u8"        -> [t |-> "uint", v |-> field.v]
                      [] field.ty = "OrderSide" ->
                           [t |-> "str", v |-> IF field.v = "Buy" THEN <<"B", "U", "Y">>
                                               ELSE <<"S", "E", "L", "L">>]
            IN
            [t |-> "obj",
             v |-> <<[k |-> <<"s", "a", "l", "t">>, v |-> Serialize_field(req.salt)],
                     [k |-> <<"m", "a", "k", "e", "r">>, v |-> Serialize_field(req.maker)],
                     [k |-> <<"s", "i", "g", "n", "e", "r">>, v |-> Serialize_field(req.signer)],
                     [k |-> <<"t", "a", "k", "e", "r">>, v |-> Serialize_field(req.taker)],
                     [k |-> <<"t", "o", "k", "e", "n", "I", "d">>, v |-> Serialize_field(req.token_id)],
                     [k |-> <<"m", "a", "k", "e", "r", "A", "m", "o", "u", "n", "t">>, v |-> Serialize_field(req.maker_amount)],
                     [k |-> <<"t", "a", "k", "e", "r", "A", "m", "o", "u", "n", "t">>, v |-> Serialize_field(req.taker_amount)],
                     [k |-> <<"e", "x", "p", "i", "r", "a", "t", "i", "o", "n">>, v |-> Serialize_field(req.expiration)],
                     [k |-> <<"n", "o", "n", "c", "e">>, v |-> Serialize_field(req.nonce)],
                     [k |-> <<"f", "e", "e", "R", "a", "t", "e", "B", "p", "s">>, v |-> Serialize_field(req.fee_rate_bps)],
                     [k |-> <<"s", "i", "d", "e">>, v |-> Serialize_field(req.side)],
                     [k |-> <<"s", "i", "g", "n", "a", "t", "u", "r", "e", "T", "y", "p", "e">>, v |-> Serialize_field(req.signature_type)],
                     [k |-> <<"s", "i", "g", "n", "a", "t", "u", "r", "e">>, v |-> Serialize_field(req.signature)]>>]
    IN
    [t |-> "obj",
     v |-> <<[k |-> <<"o", "r", "d", "e", "r">>, v |-> Serialize_order(po.order)],
             [k |-> <<"o", "w", "n", "e", "r">>, v |-> [t |-> "str", v |-> po.owner]],
             [k |-> <<"o", "r", "d", "e", "r", "T", "y", "p", "e">>,
              v |-> [t |-> "str",
                     v |-> CASE po.order_type = "Gtc" -> <<"G", "T", "C">>
                             [] po.order_type = "Fok" -> <<"F", "O", "K">>
                             [] po.order_type = "Fak" -> <<"F", "A", "K">>
                             [] po.order_type = "Gtd" -> <<"G", "T", "D">>]],
             [k |-> <<"d", "e", "f", "e", "r", "E", "x", "e", "c">>,
              v |-> [t |-> "bool", v |-> po.defer_exec]]>>]

\* build_hmac_signature leaving the body out of the message
build_hmac_signature_no_body(secret, timestamp, method, req_path, body) ==
    LET decoded == URL_SAFE_decode(secret)
    IN  IF ~decoded.ok THEN [ok |-> FALSE, err |-> "Failed to decode secret"]
        ELSE
        LET serialized == IF body.some THEN to_json(body.v) ELSE [ok |-> TRUE, v |-> <<>>]
        IN  IF ~serialized.ok THEN [ok |-> FALSE, err |-> serialized.err]
            ELSE
            LET message == to_string(NatToBig(timestamp)) \o method \o req_path
                digest == HmacSha256(decoded.v, as_bytes(message))
            IN  [ok |-> TRUE, v |-> URL_SAFE_encode(digest),
                 mac |-> [key |-> decoded.v, message |-> message]]

\* build_hmac_signature. mac is what the MAC was keyed with and fed, for
\* inspection.
build_hmac_signature(secret, timestamp, method, req_path, body) ==
    LET decoded == URL_SAFE_decode(secret)
    IN  IF ~decoded.ok THEN [ok |-> FALSE, err |-> "Failed to decode secret"]
        ELSE
        LET serialized == IF body.some THEN to_json(body.v) ELSE [ok |-> TRUE, v |-> <<>>]
        IN  IF ~serialized.ok THEN [ok |-> FALSE, err |-> serialized.err]
            ELSE
            LET message == to_string(NatToBig(timestamp)) \o method \o req_path
                           \o serialized.v
                digest == HmacSha256(decoded.v, as_bytes(message))
            IN  [ok |-> TRUE, v |-> URL_SAFE_encode(digest),
                 mac |-> [key |-> decoded.v, message |-> message]]

POLY_ADDR_HEADER == "POLY_ADDRESS"

POLY_SIG_HEADER == "POLY_SIGNATURE"

POLY_TS_HEADER == "POLY_TIMESTAMP"

POLY_NONCE_HEADER == "POLY_NONCE"

POLY_API_KEY_HEADER == "POLY_API_KEY"

POLY_PASS_HEADER == "POLY_PASSPHRASE"

\* A HashMap<&'static str, String> from a set of (key, value) pairs
HashMapFrom(pairs) ==
    [k \in {pr[1] : pr \in pairs} |-> (CHOOSE pr \in pairs : pr[1] = k)[2]]

\* encode_prefixed(signer.address().as_slice()): "0x" and lowercase hex
encode_prefixed_address(wallet) == wallet.hex

\* create_l2_headers, with the timestamp the clock returned
create_l2_headers(signer, api_creds, method, req_path, body, timestamp) ==
    LET address == encode_prefixed_address(signer)
        hmac_signature == build_hmac_signature(api_creds.secret, timestamp, method,
                                               req_path, body)
    IN  IF ~hmac_signature.ok THEN [ok |-> FALSE, err |-> hmac_signature.err]
        ELSE [ok |-> TRUE,
              v |-> HashMapFrom({<<POLY_ADDR_HEADER, address>>,
                                 <<POLY_SIG_HEADER, hmac_signature.v>>,
                                 <<POLY_TS_HEADER, to_string(NatToBig(timestamp))>>,
                                 <<POLY_API_KEY_HEADER, api_creds.api_key>>,
                                 <<POLY_PASS_HEADER, api_creds.passphrase>>}),
              mac |-> hmac_signature.mac]

\* ------------------------------------------------------------------------
\* authenticated.rs: L1 headers
\* ------------------------------------------------------------------------

\* sign_clob_auth_message: the ClobAuth struct with the fixed attestation
\* text, hashed under the domain (name, version, chain id) and signed.
sign_clob_auth_message(signer, timestamp, nonce, chain_id, signs) ==
    LET message == "This message attests that I control the given wallet"
        auth_struct == [address |-> WalletAddress(signer), timestamp |-> timestamp,
                        nonce |-> nonce, message |-> message]
        domain == [name |-> "ClobAuthDomain", version |-> "1", chain_id |-> chain_id]
        hash == [domain |-> domain, message |-> auth_struct]
    IN  IF signs THEN [ok |-> TRUE, v |-> [by |-> signer.key, hash |-> hash]]
        ELSE [ok |-> FALSE, err |-> "Failed to sign auth message"]

\* create_l1_headers reading the clock a second time for the header
create_l1_headers_reread(signer, chain_id, nonce, now, signs) ==
    LET timestamp == to_string(NatToBig(now))
        nonce_val == NatToBig(unwrap_or(nonce, 0))
        signature == sign_clob_auth_message(signer, timestamp, nonce_val, chain_id, signs)
        address == encode_prefixed_address(signer)
    IN  IF ~signature.ok THEN [ok |-> FALSE, err |-> signature.err]
        ELSE [ok |-> TRUE,
              v |-> HashMapFrom({<<POLY_ADDR_HEADER, address>>,
                                 <<POLY_SIG_HEADER, signature.v>>,
                                 <<POLY_TS_HEADER, to_string(NatToBig(now + 1))>>,
                                 <<POLY_NONCE_HEADER, to_string(nonce_val)>>})]

\* create_l1_headers, with the time the clock returned and whether signing
\* succeeds
create_l1_headers(signer, chain_id, nonce, now, signs) ==
    LET timestamp == to_string(NatToBig(now))
        nonce_val == NatToBig(unwrap_or(nonce, 0))
        signature == sign_clob_auth_message(signer, timestamp, nonce_val, chain_id, signs)
        address == encode_prefixed_address(signer)
    IN  IF ~signature.ok THEN [ok |-> FALSE, err |-> signature.err]
        ELSE [ok |-> TRUE,
              v |-> HashMapFrom({<<POLY_ADDR_HEADER, address>>,
                                 <<POLY_SIG_HEADER, signature.v>>,
                                 <<POLY_TS_HEADER, timestamp>>,
                                 <<POLY_NONCE_HEADER, to_string(nonce_val)>>})]

\* ------------------------------------------------------------------------
\* Inputs
\* ------------------------------------------------------------------------

MaxPriceScale == 5

MaxQtyScale == 3

PriceMantissas == {-65, 0, 3, 4, 5, 15, 40, 65, 655, 9999, 10001}

QtyMantissas == {-500, -1, 0, 1, 7, 500, 1000, 4294, 4295, 10000, 123456, 429496, 429497}

Prices == {Dec(m, sc) : m \in PriceMantissas, sc \in 0..MaxPriceScale}

Quantities == {Dec(m, sc) : m \in QtyMantissas, sc \in 0..MaxQtyScale}

Kinds(qs) == {[tag |-> t, amount |-> q] : t \in OrderKindTag, q \in qs}

ValidTickStrings == {"0.1", "0.01", "0.001", "0.0001"}

Wallet1 == [key |-> "k1", address |-> "0x1111111111111111111111111111111111111111"]

\* OrderParams with every Option unset
PlainParams(price, side, kind, tick_size) ==
    [token_id |-> <<"1", "2", "3">>, price |-> price, side |-> side,
     nonce |-> None, fee_rate_bps |-> None, expiration |-> None, taker |-> None,
     signer |-> WalletAddress(Wallet1), funder |-> None,
     tick_size |-> tick_size, kind |-> kind, sig_type |-> "Eoa",
     neg_risk |-> FALSE, wallet |-> Wallet1]

AmountParams ==
    {PlainParams(p, s, k, t) :
        p \in Prices, s \in OrderSide, k \in Kinds(Quantities), t \in ValidTickStrings}

\* Inputs of create_order
OrderPrices == {Dec(65, 2), Dec(655, 3), Dec(4, 3)}

OrderQuantities == {Dec(500, 0), Dec(5000, 0)}

TickStrings == ValidTickStrings \cup {"0.5"}

LongTokenId == [i \in 1..78 |-> "9"]

TokenIds == {<<"1", "2", "3">>, <<"1", "_", "0">>, <<"0", "x", "1">>, <<"-", "1">>,
             LongTokenId}

Address2 == "0x2222222222222222222222222222222222222222"

Address3 == "0x3333333333333333333333333333333333333333"

\* The optional fields and the signer field of OrderParams
OptionProfiles ==
    {[nonce |-> None, fee_rate_bps |-> None, expiration |-> None, taker |-> None,
      funder |-> None, signer |-> WalletAddress(Wallet1)],
     [nonce |-> Some(7), fee_rate_bps |-> Some(100), expiration |-> Some(1893456000),
      taker |-> Some(Address2), funder |-> Some(Address3), signer |-> Address2],
     [nonce |-> None, fee_rate_bps |-> Some(0), expiration |-> None,
      taker |-> Some(ZeroAddress), funder |-> Some(Address3),
      signer |-> WalletAddress(Wallet1)]}

OrderParams ==
    {[token_id |-> tok, price |-> p, side |-> s, nonce |-> o.nonce,
      fee_rate_bps |-> o.fee_rate_bps, expiration |-> o.expiration, taker |-> o.taker,
      signer |-> o.signer, funder |-> o.funder, tick_size |-> t, kind |-> k,
      sig_type |-> st, neg_risk |-> nr, wallet |-> Wallet1] :
        tok \in TokenIds, p \in OrderPrices, s \in OrderSide, o \in OptionProfiles,
        t \in TickStrings, k \in Kinds(OrderQuantities), st \in SignatureType,
        nr \in BOOLEAN}

\* Tick size strings, the four of the table and others near them
AllTickStrings ==
    ValidTickStrings \cup {"0.00001", "1", "0.10", " 0.1", "", "0.5", ".1", "0.1 ", "0,1",
                           "1e-1", "0.0010", "Tenth"}

TickParams ==
    {PlainParams(p, s, k, t) :
        p \in OrderPrices, s \in OrderSide, k \in Kinds(OrderQuantities),
        t \in AllTickStrings}

\* Market buys at prices up to 1: the prices next below 1 on each tick, prices
\* that round onto them or onto 1, small prices; quote amounts whose
\* quotient by such a price has a long run of nines
BuyPrices ==
    {Dec(9, 1), Dec(99, 2), Dec(999, 3), Dec(9999, 4), Dec(1, 0), Dec(10, 1),
     Dec(99995, 5), Dec(99996, 5), Dec(100004, 5), Dec(10001, 4),
     Dec(1, 4), Dec(3, 1), Dec(7, 2), Dec(33, 2), Dec(333, 3), Dec(6667, 4), Dec(65, 2),
     Dec(9998, 4), Dec(97, 2), Dec(4, 3)}

BuyQuotes ==
    {Dec(8, 2), Dec(98, 2), Dec(998, 2), Dec(9998, 2), Dec(1, 2), Dec(1, 0), Dec(2, 0),
     Dec(500, 0), Dec(1000, 0), Dec(12345, 2), Dec(429496, 2), Dec(429, 0), Dec(99989, 3),
     Dec(0, 0), Dec(7, 0), Dec(10000, 2)}

BuyParams ==
    {PlainParams(p, "Buy", [tag |-> "MarketBuy", amount |-> q], t) :
        p \in BuyPrices, q \in BuyQuotes, t \in ValidTickStrings}

\* Values generate_seed can return
Seeds == {0, 1234567890}

\* Inputs of the header builders: wallets with a checksummed address and its
\* lowercase hex form
Wallet2 == [key |-> "k2", address |-> "0xAb5801a7D398351b8bE11C439e05C5B3259aeC9B",
            hex |-> "0xab5801a7d398351b8be11c439e05c5b3259aec9b"]

Wallet3 == [key |-> "k3", address |-> "0x52908400098527886E0F7030069857D2E4169EE7",
            hex |-> "0x52908400098527886e0f7030069857d2e4169ee7"]

\* Times the clock can return
Clock == {0, 999999999, 1761868800}

\* Secrets: padded and unpadded base64url, and texts outside base64url
Secrets ==
    {<<"Y", "Q", "=", "=">>, <<"Y", "Q">>, <<"Y", "W", "I", "=">>, <<"Y", "W", "I">>,
     <<"Y", "W", "J", "j">>, <<"_", "-", "8", "=">>, <<"_", "-", "8">>,
     <<"Y", "W", "J", "j", "Z", "A", "=", "=">>, <<"Y", "W", "J", "j", "Z", "A">>,
     <<"Y", "+", "/", "j">>, <<"Y", "R", "=", "=">>, <<"Y", "=", "Q", "=">>,
     <<"Y", "W", "J", "j", "Z">>, <<"a", " ", "b", "c">>, <<>>,
     <<"c", "2", "V", "j", "c", "m", "V", "0">>}

CredentialsSet ==
    {[api_key |-> "key-1", secret |-> sec, passphrase |-> "pass phrase"] : sec \in Secrets}

Methods == {<<"G", "E", "T">>, <<"P", "O", "S", "T">>}

Paths == {<<"/", "o", "r", "d", "e", "r">>, <<"/", "o", "k">>}

OrderBody ==
    [t |-> "obj",
     v |-> <<[k |-> <<"o", "w", "n", "e", "r">>, v |-> [t |-> "str", v |-> <<"k", "\"", "1">>]],
             [k |-> <<"n">>, v |-> [t |-> "num", v |-> 70]],
             [k |-> <<"d", "e", "f", "e", "r">>, v |-> [t |-> "bool", v |-> FALSE]]>>]

FailingBody ==
    [t |-> "obj", v |-> <<[k |-> <<"a">>, v |-> [t |-> "num", v |-> 1]],
                          [k |-> <<"b">>, v |-> [t |-> "fails"]]>>]

\* A string with control characters, delete, a quote, a backslash and
\* characters of two, three and four UTF-8 bytes
ControlBody ==
    [t |-> "str",
     v |-> <<"a", "\n", "\t", "U+0001", "\"", "U+0008", "\r", "\f", "U+001F", "U+007F",
          "U+0000", "\\", "U+00E9", "U+20AC", "U+1F600", "/">>]

\* Nested arrays and objects, empty ones, null, negative and 64-bit integers,
\* floats in every notation, and a key with a line feed
MixedBody ==
    [t |-> "obj",
     v |-> <<[k |-> <<"l", "i", "\n", "s", "t">>,
              v |-> [t |-> "arr",
                     v |-> <<[t |-> "null"], [t |-> "num", v |-> -5], [t |-> "bool", v |-> TRUE],
                             [t |-> "obj", v |-> <<[k |-> <<"x">>, v |-> [t |-> "arr", v |-> <<>>]]>>],
                             [t |-> "str", v |-> <<"z">>]>>]],
             [k |-> <<"b", "i", "g">>,
              v |-> [t |-> "uint", v |-> <<1, 8, 4, 4, 6, 7, 4, 4, 0, 7, 3, 7, 0, 9, 5, 5, 1, 6, 1, 5>>]],
             [k |-> <<"e">>, v |-> [t |-> "obj", v |-> <<>>]],
             [k |-> <<"n", "e", "g">>, v |-> [t |-> "num", v |-> -2147483647]],
             [k |-> <<"m", "i", "n">>,
              v |-> [t |-> "int", neg |-> TRUE, v |-> <<9, 2, 2, 3, 3, 7, 2, 0, 3, 6, 8, 5, 4, 7, 7, 5, 8, 0, 8>>]],
             [k |-> <<"f">>,
              v |-> [t |-> "arr",
                     v |-> <<[t |-> "f64", neg |-> FALSE, m |-> <<5>>, e |-> -1],
                             [t |-> "f64", neg |-> TRUE, m |-> <<0>>, e |-> 0],
                             [t |-> "f64", neg |-> FALSE, m |-> <<1, 2, 3, 4>>, e |-> 7],
                             [t |-> "f64", neg |-> FALSE, m |-> <<1>>, e |-> 21],
                             [t |-> "f64", neg |-> FALSE, m |-> <<1, 2, 3, 4>>, e |-> 30],
                             [t |-> "f64", neg |-> TRUE, m |-> <<1, 5>>, e |-> -8],
                             [t |-> "f64", neg |-> FALSE, m |-> <<1, 2, 3, 4>>, e |-> -6],
                             [t |-> "f64", neg |-> FALSE, m |-> <<1, 2, 3, 4>>, e |-> -2],
                             [t |-> "f64", neg |-> FALSE, m |-> <<1>>, e |-> -5],
                             [t |-> "nonfinite"]>>]]>>]

\* The request post_order signs: a Limit Buy of 500 at 0.65 with the salt
\* u64::MAX, owned by the api key, of the given order type, not deferred
PostOrderBody(order_type) ==
    Serialize_post_order(
        [order |->
         [salt           |-> U64(<<1, 8, 4, 4, 6, 7, 4, 4, 0, 7, 3, 7, 0, 9, 5, 5, 1, 6, 1, 5>>),
         maker          |-> String(<<"0", "x", "A", "b", "5", "8", "0", "1", "a", "7", "D",
                                 "3", "9", "8", "3", "5", "1", "b", "8", "b", "E", "1",
                                 "1", "C", "4", "3", "9", "e", "0", "5", "C", "5", "B",
                                 "3", "2", "5", "9", "a", "e", "C", "9", "B">>),
         signer         |-> String(<<"0", "x", "A", "b", "5", "8", "0", "1", "a", "7", "D",
                                 "3", "9", "8", "3", "5", "1", "b", "8", "b", "E", "1",
                                 "1", "C", "4", "3", "9", "e", "0", "5", "C", "5", "B",
                                 "3", "2", "5", "9", "a", "e", "C", "9", "B">>),
         taker          |-> String(<<"0", "x", "0", "0", "0", "0", "0", "0", "0", "0", "0",
                                 "0", "0", "0", "0", "0", "0", "0", "0", "0", "0", "0",
                                 "0", "0", "0", "0", "0", "0", "0", "0", "0", "0", "0",
                                 "0", "0", "0", "0", "0", "0", "0", "0", "0">>),
         token_id       |-> String(<<"1", "_", "0">>),
         maker_amount   |-> String(<<"3", "2", "5", "0", "0", "0", "0", "0", "0">>),
         taker_amount   |-> String(<<"5", "0", "0", "0", "0", "0", "0", "0", "0">>),
         expiration     |-> String(<<"0">>),
         nonce          |-> String(<<"0">>),
         fee_rate_bps   |-> String(<<"0">>),
         side           |-> Side("Buy"),
         signature_type |-> U8(2),
         signature      |-> String(<<"0", "x", "1", "f", "1", "f", "1", "f", "1", "f", "1",
                                 "f", "1", "f", "1", "f", "1", "f", "1", "f", "1", "f",
                                 "1", "f", "1", "f", "1", "f", "1", "f", "1", "f", "1",
                                 "f", "1", "f", "1", "f", "1", "f", "1", "f", "1", "f",
                                 "1", "f", "1", "f", "1", "f", "1", "f", "1", "f", "1",
                                 "f", "1", "f", "1", "f", "1", "f", "1", "f", "1", "f",
                                 "1", "f", "1", "f", "1", "f", "1", "f", "1", "f", "1",
                                 "f", "1", "f", "1", "f", "1", "f", "1", "f", "1", "f",
                                 "1", "f", "1", "f", "1", "f", "1", "f", "1", "f", "1",
                                 "f", "1", "f", "1", "f", "1", "f", "1", "f", "1", "f",
                                 "1", "f", "1", "f", "1", "f", "1", "f", "1", "f", "1",
                                 "f", "1", "f", "1", "f", "1", "f", "1", "f", "1", "f">>)],
         owner |-> <<"k", "e", "y", "-", "1">>, order_type |-> order_type, defer_exec |-> FALSE])

Bodies == {None, Some(OrderBody), Some([t |-> "str", v |-> <<"a", "\\", "b">>]),
           Some(FailingBody)}

\* Every secret with every method, path and body of Bodies; under the secret
\* "c2VjcmV0" also the further bodies, one of them an array whose second
\* element fails to serialize; and, as post_order calls it, POST /order with
\* the PostOrder body of every OrderType
L2Params ==
    {[signer |-> w, api_creds |-> c, method |-> m, req_path |-> pa, body |-> b] :
        w \in {Wallet2}, c \in CredentialsSet, m \in Methods, pa \in Paths, b \in Bodies}
    \cup
    {[signer |-> w, api_creds |-> c, method |-> m, req_path |-> pa, body |-> b] :
        w \in {Wallet2},
        c \in {x \in CredentialsSet : x.secret = <<"c", "2", "V", "j", "c", "m", "V", "0">>},
        m \in Methods, pa \in Paths,
        b \in {Some(ControlBody), Some(MixedBody),
               Some([t |-> "arr", v |-> <<[t |-> "num", v |-> 1], [t |-> "fails"]>>])}}
    \cup
    {[signer |-> w, api_creds |-> c, method |-> <<"P", "O", "S", "T">>,
      req_path |-> <<"/", "o", "r", "d", "e", "r">>, body |-> Some(PostOrderBody(ot))] :
        w \in {Wallet2},
        c \in {x \in CredentialsSet : x.secret = <<"c", "2", "V", "j", "c", "m", "V", "0">>},
        ot \in {"Gtc", "Fok", "Fak", "Gtd"}}

ChainIds == {1, 137, 80002}

L1Params ==
    {[signer |-> w, chain_id |-> c, nonce |-> n] :
        w \in {Wallet2, Wallet3}, c \in ChainIds,
        n \in {None, Some(0), Some(1), Some(7), Some(2147483647)}}

InitFrom(P) ==
    /\ params \in P
    /\ pc = "ready"
    /\ amounts = NoAmounts
    /\ result = NoResult
    /\ trail = <<>>

\* ------------------------------------------------------------------------
\* calculate_order_amounts called on its own
\* ------------------------------------------------------------------------

CalculateOrderAmounts ==
    /\ pc = "ready"
    /\ TickSize_from_str(params.tick_size).ok
    /\ amounts' = [done |-> TRUE] @@
                  calculate_order_amounts(params.price, params.side, params.kind,
                                          TickSize_from_str(params.tick_size).v)
    /\ pc' = IF amounts'.ret.panic THEN "aborted" ELSE "calculated"
    /\ UNCHANGED <<params, result, trail>>

\* ------------------------------------------------------------------------
\* create_order
\* ------------------------------------------------------------------------

CreateOrder ==
    /\ pc = "ready"
    /\ \E seed \in Seeds, signs \in BOOLEAN :
         \E r \in {create_order(params, seed, signs)} :
             /\ amounts' = r.am
             /\ trail' = r.steps
             /\ result' = CASE r.outcome = "ok"  -> [done |-> TRUE, ok |-> TRUE, v |-> r.v]
                            [] r.outcome = "err" -> [done |-> TRUE, ok |-> FALSE, err |-> r.err]
                            [] r.outcome = "panic" -> NoResult
             /\ pc' = IF r.outcome = "panic" THEN "aborted" ELSE "returned"
    /\ UNCHANGED params

\* ------------------------------------------------------------------------
\* create_l2_headers, create_l1_headers
\* ------------------------------------------------------------------------

CreateL2Headers ==
    /\ pc = "ready"
    /\ \E now \in Clock :
         \E r \in {create_l2_headers(params.signer, params.api_creds, params.method,
                                     params.req_path, params.body, now)} :
             /\ result' = [done |-> TRUE] @@ r
             /\ trail' = IF r.ok THEN (IF params.body.some
                                        THEN <<"decode", "serialize", "hmac">>
                                        ELSE <<"decode", "hmac">>)
                          ELSE IF r.err = "Failed to decode secret" THEN <<"decode">>
                          ELSE <<"decode", "serialize">>
    /\ pc' = "returned"
    /\ UNCHANGED <<params, amounts>>

CreateL1Headers ==
    /\ pc = "ready"
    /\ \E now \in Clock, signs \in BOOLEAN :
         \E r \in {create_l1_headers(params.signer, params.chain_id, params.nonce,
                                     now, signs)} :
             /\ result' = [done |-> TRUE] @@ r
             /\ trail' = <<"sign">>
    /\ pc' = "returned"
    /\ UNCHANGED <<params, amounts>>

Init == InitFrom(AmountParams)

Next == CalculateOrderAmounts

Spec == Init /\ [][Next]_vars

InitOrder == InitFrom(OrderParams)

NextOrder == CreateOrder

SpecOrder == InitOrder /\ [][NextOrder]_vars

InitBuy == InitFrom(BuyParams)

NextBuy == CalculateOrderAmounts

SpecBuy == InitBuy /\ [][NextBuy]_vars

InitTick == InitFrom(TickParams)

NextTick == CreateOrder

SpecTick == InitTick /\ [][NextTick]_vars

InitL2 == InitFrom(L2Params)

NextL2 == CreateL2Headers

SpecL2 == InitL2 /\ [][NextL2]_vars

InitL1 == InitFrom(L1Params)

NextL1 == CreateL1Headers

SpecL1 == InitL1 /\ [][NextL1]_vars

\* ------------------------------------------------------------------------
\* Properties of calculate_order_amounts (specification Spec)
\* ------------------------------------------------------------------------

\* The call the state records: its tick, its rounding table, its arm
CallTick == TickSize_from_str(params.tick_size).v

CallCfg == round_config(CallTick)

CallArm == order_arm(params.kind.tag, params.side)

Calculated == pc = "calculated"

Pow10(k) == BigToNat(<<1>> \o Zeros(k))

\* q truncated toward zero to two decimals, as an integer count of hundredths
\* (the magnitude; q's mantissa fits a machine word)
Hundredths(q) ==
    IF q.scale <= 2 THEN BigToNat(q.m) * Pow10(2 - q.scale)
    ELSE BigToNat(q.m) \div Pow10(q.scale - 2)

\* The same in token units (10^-6)
TruncUnits(q) == BigShift(NatToBig(Hundredths(q)), 4)

\* The returned legs by role: quote is USDC, base is outcome shares
QuoteUnits == IF params.side = "Buy" THEN amounts.ret.maker ELSE amounts.ret.taker

BaseUnits == IF params.side = "Buy" THEN amounts.ret.taker ELSE amounts.ret.maker

\* quote = base * rounded_price exactly, the rounded price being
\* raw_price.m / 10^raw_price.scale
ExactProduct(quote, base, raw_price) ==
    BigShift(quote, raw_price.scale) = Strip(BigMul(base, raw_price.m))

\* C1: whenever a Limit (Buy or Sell) or MarketSell call returns, the base leg
\* is the quantity truncated toward zero to two decimals, the quote leg is
\* exactly base x rounded price, both in units of 10^-6, quote as maker for
\* Buy and as taker for Sell; Limit Buy 0.65 x 500 at tick 0.01 returns
\* (325000000, 500000000); a Limit Sell returns what the MarketSell of the
\* same quantity returns.
C1_LimitAndMarketSellAmounts ==
    /\ (Calculated /\ CallArm \in {"LimitBuy", "LimitSell", "MarketSell"}) =>
          /\ BaseUnits = TruncUnits(params.kind.amount)
          /\ ExactProduct(QuoteUnits, BaseUnits, amounts.raw_price)
    /\ (/\ pc # "ready"
        /\ CallArm = "LimitBuy"
        /\ params.price = Dec(65, 2)
        /\ params.kind.amount = Dec(500, 0)
        /\ params.tick_size = "0.01") =>
          /\ Calculated
          /\ amounts.ret.maker = <<3,2,5,0,0,0,0,0,0>>
          /\ amounts.ret.taker = <<5,0,0,0,0,0,0,0,0>>
    /\ (pc # "ready" /\ CallArm = "LimitSell") =>
          amounts.ret =
             calculate_order_amounts(params.price, "Sell",
                 [tag |-> "MarketSell", amount |-> params.kind.amount], CallTick).ret

\* A Limit Sell of 123.456 at 0.655, tick 0.01, has returned: the size was
\* truncated to 123.45 and the price rounded to 0.65.
C1_Witness ==
    /\ Calculated
    /\ CallArm = "LimitSell"
    /\ params.price = Dec(655, 3)
    /\ params.kind.amount = Dec(123456, 3)
    /\ params.tick_size = "0.01"
    /\ amounts.ret.maker = <<1,2,3,4,5,0,0,0,0>>

\* The taker of a MarketBuy in units of 10^-amount_decimals
TakerAtAmount == BigDivSmall(amounts.ret.taker, Pow10(6 - CallCfg.amount))

\* t is floor at amount_decimals of the ceiling at amount_decimals + 4 of
\* n / price, n a count of hundredths and price = pm / 10^s:
\*   (t * 10^4 - 1) * pm  <  n * 10^(s + a + 2)  <=  (t * 10^4 + 9999) * pm
TwoStepQuotient(t, n, pm, s, a) ==
    LET t4 == BigShift(t, 4)
        y == BigShift(NatToBig(n), s + a + 2)
    IN  /\ BigIsZero(t4) \/ BigLt(BigMul(BigSub(t4, <<1>>), pm), y)
        /\ BigLe(y, BigMul(BigAdd(t4, <<9,9,9,9>>), pm))

\* C2: whenever a MarketBuy call returns, maker is the quote amount truncated
\* toward zero to two decimals and taker is maker / rounded price, rounded
\* away from zero at amount_decimals + 4 decimals and then truncated to
\* amount_decimals, both in units of 10^-6; quote 1000 at 0.40, tick 0.01,
\* returns (1000000000, 2500000000).
C2_MarketBuyAmounts ==
    /\ (Calculated /\ CallArm = "MarketBuy") =>
          /\ amounts.ret.maker = TruncUnits(params.kind.amount)
          /\ TakerAtAmount.r = 0
          /\ TwoStepQuotient(TakerAtAmount.q, Hundredths(params.kind.amount),
                             amounts.raw_price.m, amounts.raw_price.scale, CallCfg.amount)
    /\ (/\ pc # "ready"
        /\ CallArm = "MarketBuy"
        /\ params.price = Dec(40, 2)
        /\ params.kind.amount = Dec(1000, 0)
        /\ params.tick_size = "0.01") =>
          /\ Calculated
          /\ amounts.ret.maker = <<1,0,0,0,0,0,0,0,0,0>>
          /\ amounts.ret.taker = <<2,5,0,0,0,0,0,0,0,0>>

\* A MarketBuy of 100.00 at 1.0001, tick 0.0001, has returned: the quotient
\* 99.99000099990000... rounds away to 99.9900010000 and truncates to
\* 99.990001.
C2_Witness ==
    /\ Calculated
    /\ CallArm = "MarketBuy"
    /\ params.price = Dec(10001, 4)
    /\ params.kind.amount = Dec(10000, 2)
    /\ params.tick_size = "0.0001"
    /\ amounts.ret.taker = <<9,9,9,9,0,0,0,1>>

\* The amounts are nonnegative integers of 32 bits
IsU32(d) ==
    /\ Len(d) >= 1
    /\ \A i \in 1..Len(d) : d[i] \in Digit
    /\ Strip(d) = d
    /\ BigLe(d, U32Max)

\* |quote / base - price| < 10^-a for price = raw_price.m / 10^raw_price.scale
ImpliedPriceWithin(quote, base, raw_price, a) ==
    BigLt(BigDist(BigShift(quote, raw_price.scale + a),
                  BigShift(BigMul(base, raw_price.m), a)),
          BigShift(base, raw_price.scale))

\* 0 < price < 1
InUnitInterval(price) ==
    ~price.neg /\ ~BigIsZero(price.m) /\ Len(Strip(price.m)) <= price.scale

\* C3 as stated: for every matching call that returns (with a rounded price
\* strictly between 0 and 1 and a nonzero base amount, so that the implied
\* price exists), the amounts are nonnegative integers and the implied price
\* quote / base differs from the rounded price by less than
\* 10^-amount_decimals, for Limit, MarketBuy and MarketSell alike.
C3_ImpliedPriceWithinUnit ==
    (/\ Calculated
     /\ CallArm # "Fallback"
     /\ InUnitInterval(amounts.raw_price)
     /\ ~BigIsZero(BaseUnits)) =>
        /\ IsU32(amounts.ret.maker)
        /\ IsU32(amounts.ret.taker)
        /\ ImpliedPriceWithin(QuoteUnits, BaseUnits, amounts.raw_price, CallCfg.amount)

\* C3 amended: for every matching call that returns, the amounts are
\* nonnegative 32-bit integers; for Limit and MarketSell quote = base x
\* rounded price exactly (the implied price is the rounded price whenever the
\* base is nonzero); for MarketBuy the base amount differs from quote /
\* rounded price by less than 10^-amount_decimals, that is
\* |taker x price - maker| < price x 10^(6 - amount_decimals) in units.
C3_ImpliedPriceAmended ==
    (Calculated /\ CallArm # "Fallback") =>
        /\ IsU32(amounts.ret.maker)
        /\ IsU32(amounts.ret.taker)
        /\ CallArm \in {"LimitBuy", "LimitSell", "MarketSell"} =>
              ExactProduct(QuoteUnits, BaseUnits, amounts.raw_price)
        /\ CallArm = "MarketBuy" =>
              BigLt(BigDist(BigMul(BaseUnits, amounts.raw_price.m),
                            BigShift(QuoteUnits, amounts.raw_price.scale)),
                    BigShift(amounts.raw_price.m, 6 - CallCfg.amount))

\* A MarketBuy of 0.01 at 0.3, tick 0.1, has returned (10000, 33000): the
\* implied price is 0.30303..., the base is within 0.001 of 0.0333...
C3_Witness ==
    /\ Calculated
    /\ CallArm = "MarketBuy"
    /\ params.price = Dec(3, 1)
    /\ params.kind.amount = Dec(1, 2)
    /\ params.tick_size = "0.1"
    /\ amounts.ret.maker = <<1,0,0,0,0>>
    /\ amounts.ret.taker = <<3,3,0,0,0>>

\* ret is exactly the Decimal amount amt times 10^6
ExactScaled(ret, amt) == BigShift(ret, amt.scale) = BigShift(amt.m, 6)

\* amt x 10^6 exceeds u32::MAX
ExceedsU32(amt) == ~amt.neg /\ BigLt(BigShift(U32Max, amt.scale), BigShift(amt.m, 6))

\* C5: whenever a matching call returns, each returned value is exactly its
\* amount x 10^6 and at most 2^32 - 1; whenever an amount x 10^6 exceeds
\* 2^32 - 1 the call aborts.
C5_NoClampNoWrap ==
    (pc # "ready" /\ amounts.legs.has) =>
        /\ Calculated =>
              /\ ExactScaled(amounts.ret.maker, amounts.legs.maker_amt)
              /\ ExactScaled(amounts.ret.taker, amounts.legs.taker_amt)
              /\ BigLe(amounts.ret.maker, U32Max)
              /\ BigLe(amounts.ret.taker, U32Max)
        /\ (ExceedsU32(amounts.legs.maker_amt) \/ ExceedsU32(amounts.legs.taker_amt)) =>
              pc = "aborted"

\* A Limit Sell of 4294.97 shares (4294970000 units, just above 2^32 - 1) has
\* aborted.
C5_Witness ==
    /\ pc = "aborted"
    /\ CallArm = "LimitSell"
    /\ params.kind.amount = Dec(429497, 2)
    /\ amounts.legs.has
    /\ ExceedsU32(amounts.legs.maker_amt)

\* price_decimals of a tick size string
PriceDecimals(tick) ==
    CASE tick = "0.1" -> 1 [] tick = "0.01" -> 2 [] tick = "0.001" -> 3 [] tick = "0.0001" -> 4

\* r is price rounded to p decimals, to the nearest with an exact midpoint
\* toward zero (a price with at most p decimals is left as it is; zero has
\* no sign)
NearestTowardZero(r, price, p) ==
    IF BigIsZero(price.m) THEN BigIsZero(r.m)
    ELSE IF price.scale <= p THEN r = price
    ELSE LET u == Pow10(price.scale - p)
             m == BigToNat(price.m)
             ru == BigToNat(r.m) * u
             dist == IF m >= ru THEN m - ru ELSE ru - m
         IN  /\ r.scale = p
             /\ r.neg = (price.neg /\ ~BigIsZero(r.m))
             /\ 2 * dist <= u
             /\ 2 * dist = u => ru < m

\* C6: the price the amounts are computed from is the input price rounded to
\* the tick's price_decimals (1, 2, 3, 4), to the nearest with a midpoint
\* toward zero (0.655 at tick 0.01 is 0.65), and the result of the call is the
\* result of the call on the rounded price.
C6_PriceRoundedFirst ==
    pc # "ready" =>
        /\ NearestTowardZero(amounts.raw_price, params.price, PriceDecimals(params.tick_size))
        /\ (params.price = Dec(655, 3) /\ params.tick_size = "0.01") =>
              amounts.raw_price = Dec(65, 2)
        /\ amounts.ret =
              calculate_order_amounts(amounts.raw_price, params.side, params.kind,
                                      CallTick).ret

\* A Limit Buy of 500 at 0.655, tick 0.01, has returned 325000000 = 500 x 0.65
C6_Witness ==
    /\ Calculated
    /\ CallArm = "LimitBuy"
    /\ params.price = Dec(655, 3)
    /\ params.tick_size = "0.01"
    /\ params.kind.amount = Dec(500, 0)
    /\ amounts.ret.maker = <<3,2,5,0,0,0,0,0,0>>

\* The leg the user gave and the leg derived from it
UserLeg == IF CallArm = "LimitBuy" THEN "taker" ELSE "maker"

UserAmt == IF UserLeg = "maker" THEN amounts.legs.maker_amt ELSE amounts.legs.taker_amt

DerivedAmt == IF UserLeg = "maker" THEN amounts.legs.taker_amt ELSE amounts.legs.maker_amt

UserRet == IF UserLeg = "maker" THEN amounts.ret.maker ELSE amounts.ret.taker

DerivedRet == IF UserLeg = "maker" THEN amounts.ret.taker ELSE amounts.ret.maker

\* amt x 10^6 is a whole number: rounding it to 0 decimals changes nothing
WholeScaled(amt) ==
    LET scaled == DecMul(TOKEN_SCALE, amt)
    IN  BigShift(RoundDp(scaled, 0, "MidpointTowardZero").m, scaled.scale) = Strip(scaled.m)

\* C7: the amounts of a matching call carry no precision beyond the table's:
\* the user's leg has at most size_decimals = 2 decimals and the derived leg
\* at most amount_decimals, amount x 10^6 is whole, and the returned user leg
\* is a multiple of 10^4 and the derived leg of 10^(6 - amount_decimals).
C7_NoExcessPrecision ==
    (pc # "ready" /\ amounts.legs.has) =>
        /\ UserAmt.scale <= 2
        /\ DerivedAmt.scale <= CallCfg.amount
        /\ WholeScaled(UserAmt)
        /\ WholeScaled(DerivedAmt)
        /\ Calculated =>
              /\ BigDivSmall(UserRet, 10000).r = 0
              /\ BigDivSmall(DerivedRet, Pow10(6 - CallCfg.amount)).r = 0

\* A MarketBuy of 7 at 0.3, tick 0.001, has returned: 23.3333... became
\* 23.33333.
C7_Witness ==
    /\ Calculated
    /\ CallArm = "MarketBuy"
    /\ params.price = Dec(3, 1)
    /\ params.kind.amount = Dec(7, 0)
    /\ params.tick_size = "0.001"
    /\ amounts.ret.taker = <<2,3,3,3,3,3,3,0>>

\* MarketBuy with Sell, MarketSell with Buy
Mismatch ==
    \/ params.kind.tag = "MarketBuy" /\ params.side = "Sell"
    \/ params.kind.tag = "MarketSell" /\ params.side = "Buy"

\* C8: a call with a kind/side mismatch returns (0, 0) and does not abort,
\* whatever the price, the quantity and the tick size.
C8_MismatchReturnsZero ==
    (pc # "ready" /\ Mismatch) =>
        /\ Calculated
        /\ amounts.ret.maker = BigZero
        /\ amounts.ret.taker = BigZero

\* A MarketBuy with Sell of 429497 at 0.004, tick 0.01 (the price rounds to
\* zero and the quantity exceeds 32 bits in units) has returned (0, 0).
C8_Witness ==
    /\ Calculated
    /\ Mismatch
    /\ params.kind.tag = "MarketBuy"
    /\ params.price = Dec(4, 3)
    /\ params.tick_size = "0.01"
    /\ params.kind.amount = Dec(429497, 0)
    /\ amounts.ret.maker = BigZero

\* ------------------------------------------------------------------------
\* Properties of create_order (specification SpecOrder)
\* ------------------------------------------------------------------------

ReturnedOk == pc = "returned" /\ result.done /\ result.ok

ReturnedErr == pc = "returned" /\ result.done /\ ~result.ok

\* The request on the wire and the Order whose hash was signed
Wire == Serialize(result.v)

SignedOrder == result.v.signature.v.hash.message

SignedDomain == result.v.signature.v.hash.domain

\* C4 as stated: create_order never aborts; it returns a complete request or
\* an error; an unparseable tick size, an unparseable token id and a
\* kind/side mismatch each end in an error, never in a signed order.
C4_AllOrNothing ==
    /\ pc # "aborted"
    /\ pc = "returned" =>
          /\ result.done
          /\ ~TickSize_from_str(params.tick_size).ok => ~result.ok
          /\ ~U256_from_str_radix(params.token_id).ok => ~result.ok
          /\ Mismatch => ~result.ok

\* A text of decimal digits and the integer it denotes
DecimalText(t) == Len(t) >= 1 /\ \A i \in 1..Len(t) : IsDigitChar(t[i])

TextValue(t) == Strip([i \in 1..Len(t) |-> CharDigit(t[i])])

DecimalString(j) == j.json = "string" /\ DecimalText(j.text)

\* C9 as stated: in a returned request salt, tokenId, makerAmount,
\* takerAmount, expiration, nonce and feeRateBps are decimal strings; side is
\* the string "BUY" or "SELL" and signatureType the integer 0, 1 or 2.
C9_NumericFieldsAreDecimalStrings ==
    ReturnedOk =>
        /\ DecimalString(Wire.salt)
        /\ DecimalString(Wire.tokenId)
        /\ DecimalString(Wire.makerAmount)
        /\ DecimalString(Wire.takerAmount)
        /\ DecimalString(Wire.expiration)
        /\ DecimalString(Wire.nonce)
        /\ DecimalString(Wire.feeRateBps)
        /\ Wire.side.json = "string"
        /\ Wire.signatureType.json = "number"

\* j is the decimal string of the integer v
DecimalStringOf(j, v) == DecimalString(j) /\ TextValue(j.text) = v

\* C10: the domain a returned request was signed under has the neg-risk
\* exchange as verifying contract when neg_risk is set and the standard
\* exchange when it is not, whatever the token id, side, kind and signature
\* type, and always the name "Polymarket CTF Exchange", version "1" and
\* chain id 137.
C10_VerifyingContractByNegRisk ==
    ReturnedOk =>
        /\ SignedDomain.verifying_contract =
              (IF params.neg_risk THEN "0xC5d563A36AE78145C45a50134d48A1215220f80a"
               ELSE "0x4bFb41d5B3570DeFd03C39a9A4D8dE6Bd8B8982E")
        /\ SignedDomain.name = "Polymarket CTF Exchange"
        /\ SignedDomain.version = "1"
        /\ SignedDomain.chain_id = 137
        /\ DOMAIN SignedDomain = {"name", "version", "chain_id", "verifying_contract"}

\* A neg-risk MarketSell signed by a proxy wallet has returned, signed under
\* the neg-risk exchange.
C10_Witness ==
    /\ ReturnedOk
    /\ params.neg_risk
    /\ params.kind.tag = "MarketSell"
    /\ params.sig_type = "PolyProxy"
    /\ SignedDomain.verifying_contract = POLYGON_NEG_RISK_EXCHANGE_CONTRACT

\* The value an optional integer field stands for: the supplied one, else 0
SuppliedOrZero(opt) == IF opt.some THEN NatToBig(opt.v) ELSE <<0>>

\* C11: in a returned request, nonce, fee_rate_bps and expiration are the
\* supplied values or 0, taker is the supplied address or the zero address,
\* maker is the supplied funder or the address of the signing key; signer is
\* the address of the key that signed, whatever OrderParams.signer holds; and
\* the request carries each of these as it was signed.
C11_DefaultsAndSigner ==
    ReturnedOk =>
        /\ SignedOrder.nonce = SuppliedOrZero(params.nonce)
        /\ SignedOrder.feeRateBps = SuppliedOrZero(params.fee_rate_bps)
        /\ SignedOrder.expiration = SuppliedOrZero(params.expiration)
        /\ SignedOrder.taker = (IF params.taker.some THEN params.taker.v
                                ELSE "0x0000000000000000000000000000000000000000")
        /\ SignedOrder.maker = (IF params.funder.some THEN params.funder.v
                                ELSE params.wallet.address)
        /\ SignedOrder.signer = params.wallet.address
        /\ result.v.signature.v.by = params.wallet.key
        /\ DecimalStringOf(Wire.nonce, SignedOrder.nonce)
        /\ DecimalStringOf(Wire.feeRateBps, SignedOrder.feeRateBps)
        /\ DecimalStringOf(Wire.expiration, SignedOrder.expiration)
        /\ Wire.taker = [json |-> "string", text |-> SignedOrder.taker]
        /\ Wire.maker = [json |-> "string", text |-> SignedOrder.maker]
        /\ Wire.signer = [json |-> "string", text |-> SignedOrder.signer]

\* A request has returned for params whose signer field is another address
\* and whose optional fields are all set: the supplied values were signed and
\* the signer is the wallet's address.
C11_Witness ==
    /\ ReturnedOk
    /\ params.signer = Address2
    /\ params.signer # params.wallet.address
    /\ params.nonce = Some(7)
    /\ params.funder = Some(Address3)
    /\ SignedOrder.nonce = <<7>>
    /\ SignedOrder.maker = Address3
    /\ SignedOrder.signer = params.wallet.address

\* A request has returned for params with every optional field unset.
C11_WitnessDefaults ==
    /\ ReturnedOk
    /\ ~params.nonce.some
    /\ ~params.funder.some
    /\ ~params.taker.some
    /\ SignedOrder.maker = params.wallet.address
    /\ Wire.nonce.text = <<"0">>

\* ------------------------------------------------------------------------
\* L2 headers (SpecL2)
\* ------------------------------------------------------------------------

Headers == result.v

\* The text of the body as compact JSON: written out for the bodies whose
\* serialization succeeds
CompactJson(body) ==
    LET PostOrderJson(order_type) ==
            <<"{", "\"", "o", "r", "d", "e", "r", "\"", ":", "{", "\"", "s", "a", "l", "t",
            "\"", ":", "1", "8", "4", "4", "6", "7", "4", "4", "0", "7", "3", "7", "0",
            "9", "5", "5", "1", "6", "1", "5", ",", "\"", "m", "a", "k", "e", "r", "\"",
            ":", "\"", "0", "x", "A", "b", "5", "8", "0", "1", "a", "7", "D", "3", "9",
            "8", "3", "5", "1", "b", "8", "b", "E", "1", "1", "C", "4", "3", "9", "e", "0",
            "5", "C", "5", "B", "3", "2", "5", "9", "a", "e", "C", "9", "B", "\"", ",",
            "\"", "s", "i", "g", "n", "e", "r", "\"", ":", "\"", "0", "x", "A", "b", "5",
            "8", "0", "1", "a", "7", "D", "3", "9", "8", "3", "5", "1", "b", "8", "b", "E",
            "1", "1", "C", "4", "3", "9", "e", "0", "5", "C", "5", "B", "3", "2", "5", "9",
            "a", "e", "C", "9", "B", "\"", ",", "\"", "t", "a", "k", "e", "r", "\"", ":",
            "\"", "0", "x", "0", "0", "0", "0", "0", "0", "0", "0", "0", "0", "0", "0",
            "0", "0", "0", "0", "0", "0", "0", "0", "0", "0", "0", "0", "0", "0", "0", "0",
            "0", "0", "0", "0", "0", "0", "0", "0", "0", "0", "0", "0", "\"", ",", "\"",
            "t", "o", "k", "e", "n", "I", "d", "\"", ":", "\"", "1", "_", "0", "\"", ",",
            "\"", "m", "a", "k", "e", "r", "A", "m", "o", "u", "n", "t", "\"", ":", "\"",
            "3", "2", "5", "0", "0", "0", "0", "0", "0", "\"", ",", "\"", "t", "a", "k",
            "e", "r", "A", "m", "o", "u", "n", "t", "\"", ":", "\"", "5", "0", "0", "0",
            "0", "0", "0", "0", "0", "\"", ",", "\"", "e", "x", "p", "i", "r", "a", "t",
            "i", "o", "n", "\"", ":", "\"", "0", "\"", ",", "\"", "n", "o", "n", "c", "e",
            "\"", ":", "\"", "0", "\"", ",", "\"", "f", "e", "e", "R", "a", "t", "e", "B",
            "p", "s", "\"", ":", "\"", "0", "\"", ",", "\"", "s", "i", "d", "e", "\"", ":",
            "\"", "B", "U", "Y", "\"", ",", "\"", "s", "i", "g", "n", "a", "t", "u", "r",
            "e", "T", "y", "p", "e", "\"", ":", "2", ",", "\"", "s", "i", "g", "n", "a",
            "t", "u", "r", "e", "\"", ":", "\"", "0", "x", "1", "f", "1", "f", "1", "f",
            "1", "f", "1", "f", "1", "f", "1", "f", "1", "f", "1", "f", "1", "f", "1", "f",
            "1", "f", "1", "f", "1", "f", "1", "f", "1", "f", "1", "f", "1", "f", "1", "f",
            "1", "f", "1", "f", "1", "f", "1", "f", "1", "f", "1", "f", "1", "f", "1", "f",
            "1", "f", "1", "f", "1", "f", "1", "f", "1", "f", "1", "f", "1", "f", "1", "f",
            "1", "f", "1", "f", "1", "f", "1", "f", "1", "f", "1", "f", "1", "f", "1", "f",
            "1", "f", "1", "f", "1", "f", "1", "f", "1", "f", "1", "f", "1", "f", "1", "f",
            "1", "f", "1", "f", "1", "f", "1", "f", "1", "f", "1", "f", "1", "f", "1", "f",
            "1", "f", "1", "f", "1", "f", "1", "f", "1", "f", "1", "f", "\"", "}", ",",
            "\"", "o", "w", "n", "e", "r", "\"", ":", "\"", "k", "e", "y", "-", "1", "\"",
            ",", "\"", "o", "r", "d", "e", "r", "T", "y", "p", "e", "\"", ":", "\"">>
            \o order_type \o
            <<"\"", ",", "\"", "d", "e", "f", "e", "r", "E", "x", "e", "c", "\"", ":", "f",
            "a", "l", "s", "e", "}">>
    IN
    CASE body = OrderBody ->
           <<"{", "\"", "o", "w", "n", "e", "r", "\"", ":", "\"", "k", "\\", "\"", "1", "\"",
           ",", "\"", "n", "\"", ":", "7", "0", ",", "\"", "d", "e", "f", "e", "r", "\"",
           ":", "f", "a", "l", "s", "e", "}">>
      [] body = [t |-> "str", v |-> <<"a", "\\", "b">>] ->
           <<"\"", "a", "\\", "\\", "b", "\"">>
      [] body = ControlBody ->
           <<"\"", "a", "\\", "n", "\\", "t", "\\", "u", "0", "0", "0", "1", "\\", "\"",
           "\\", "b", "\\", "r", "\\", "f", "\\", "u", "0", "0", "1", "f", "U+007F", "\\",
           "u", "0", "0", "0", "0", "\\", "\\", "U+00E9", "U+20AC", "U+1F600", "/", "\"">>
      [] body = MixedBody ->
           <<"{", "\"", "l", "i", "\\", "n", "s", "t", "\"", ":", "[", "n", "u", "l", "l",
           ",", "-", "5", ",", "t", "r", "u", "e", ",", "{", "\"", "x", "\"", ":", "[",
           "]", "}", ",", "\"", "z", "\"", "]", ",", "\"", "b", "i", "g", "\"", ":", "1",
           "8", "4", "4", "6", "7", "4", "4", "0", "7", "3", "7", "0", "9", "5", "5", "1",
           "6", "1", "5", ",", "\"", "e", "\"", ":", "{", "}", ",", "\"", "n", "e", "g",
           "\"", ":", "-", "2", "1", "4", "7", "4", "8", "3", "6", "4", "7", ",", "\"",
           "m", "i", "n", "\"", ":", "-", "9", "2", "2", "3", "3", "7", "2", "0", "3", "6",
           "8", "5", "4", "7", "7", "5", "8", "0", "8", ",", "\"", "f", "\"", ":", "[",
           "0", ".", "5", ",", "-", "0", ".", "0", ",", "1", "2", "3", "4", "0", "0", "0",
           "0", "0", "0", "0", ".", "0", ",", "1", "e", "+", "2", "1", ",", "1", ".", "2",
           "3", "4", "e", "+", "3", "3", ",", "-", "1", ".", "5", "e", "-", "7", ",", "0",
           ".", "0", "0", "1", "2", "3", "4", ",", "1", "2", ".", "3", "4", ",", "0", ".",
           "0", "0", "0", "0", "1", ",", "n", "u", "l", "l", "]", "}">>
      [] body = PostOrderBody("Gtc") -> PostOrderJson(<<"G", "T", "C">>)
      [] body = PostOrderBody("Fok") -> PostOrderJson(<<"F", "O", "K">>)
      [] body = PostOrderBody("Fak") -> PostOrderJson(<<"F", "A", "K">>)
      [] body = PostOrderBody("Gtd") -> PostOrderJson(<<"G", "T", "D">>)

\* The bytes a padded base64url secret stands for, written out
SecretBytes(secret) ==
    CASE secret = <<>> -> <<>>
      [] secret = <<"Y", "Q", "=", "=">> -> <<97>>
      [] secret = <<"Y", "W", "I", "=">> -> <<97, 98>>
      [] secret = <<"Y", "W", "J", "j">> -> <<97, 98, 99>>
      [] secret = <<"_", "-", "8", "=">> -> <<255, 239>>
      [] secret = <<"Y", "W", "J", "j", "Z", "A", "=", "=">> -> <<97, 98, 99, 100>>
      [] secret = <<"c", "2", "V", "j", "c", "m", "V", "0">> -> <<115, 101, 99, 114, 101, 116>>

\* The signature under the key "a" (secret "YQ==") of "0GET/order", and
\* under the key "secret" (secret "c2VjcmV0") of
\* 1761868800POST/order{"owner":"k\"1","n":70,"defer":false}
GoldenSignatureA ==
    <<"q", "B", "i", "C", "2", "W", "-", "y", "n", "d", "Q", "Q", "U", "e", "V", "F",
      "f", "0", "5", "o", "E", "b", "i", "b", "7", "M", "6", "1", "b", "b", "J", "L",
      "T", "3", "e", "H", "0", "y", "I", "i", "n", "K", "Y", "=">>

GoldenSignatureB ==
    <<"8", "7", "t", "o", "4", "8", "v", "Q", "9", "M", "I", "R", "M", "Q", "5", "Z",
      "O", "x", "O", "q", "9", "o", "S", "m", "G", "e", "6", "w", "D", "o", "B", "O",
      "L", "5", "V", "9", "P", "E", "5", "U", "h", "h", "E", "=">>

\* The signatures under the key "secret" of 1761868800POST/order followed
\* by the JSON text of ControlBody (its bytes in UTF-8), of 999999999POST/order
\* followed by that of PostOrderBody, and of 0GET/ok followed by that of
\* MixedBody
GoldenSignatureC ==
    <<"r", "v", "c", "B", "p", "G", "8", "y", "f", "e", "k", "f", "_", "P",
      "e", "G", "W", "_", "a", "W", "1", "p", "o", "k", "n", "g", "C", "_",
      "Z", "v", "B", "H", "6", "-", "8", "M", "5", "S", "J", "w", "o", "b",
      "Q", "=">>

GoldenSignatureD ==
    <<"D", "q", "e", "x", "Y", "w", "O", "v", "a", "1", "f", "L", "_", "T",
      "P", "t", "5", "f", "b", "m", "D", "2", "5", "y", "o", "G", "B", "N",
      "B", "H", "f", "Q", "R", "B", "f", "P", "D", "C", "e", "I", "M", "A",
      "U", "=">>

GoldenSignatureE ==
    <<"5", "m", "K", "T", "R", "o", "6", "e", "Q", "t", "c", "s", "o", "m",
      "F", "_", "S", "p", "2", "L", "H", "E", "J", "q", "W", "X", "3", "1",
      "r", "k", "f", "u", "5", "G", "5", "8", "W", "P", "y", "2", "f", "d",
      "Y", "=">>

\* The signature under the key "secret" of 0POST/order followed by the JSON
\* text of the fill-and-kill PostOrderBody
GoldenSignatureF ==
    <<"M", "H", "I", "0", "8", "B", "N", "V", "_", "4", "U", "F", "U", "S",
      "7", "v", "0", "J", "I", "E", "_", "y", "Y", "3", "Y", "9", "Q", "6",
      "V", "H", "C", "w", "4", "4", "0", "0", "b", "7", "P", "R", "w", "B",
      "8", "=">>

\* C12: create_l2_headers returns exactly the five headers POLY_ADDRESS,
\* POLY_SIGNATURE, POLY_TIMESTAMP, POLY_API_KEY and POLY_PASSPHRASE; the
\* signature is the encoded HMAC-SHA256, keyed by the decoded secret, of
\* timestamp || method || path without a body and of timestamp || method ||
\* path || compact_json(body) with one; the timestamp in the message is
\* the one in POLY_TIMESTAMP; api key and passphrase are the credentials'.
C12_L2Headers ==
    ReturnedOk =>
        /\ DOMAIN Headers = {"POLY_ADDRESS", "POLY_SIGNATURE", "POLY_TIMESTAMP",
                             "POLY_API_KEY", "POLY_PASSPHRASE"}
        /\ Headers["POLY_ADDRESS"] = params.signer.hex
        /\ Headers["POLY_API_KEY"] = params.api_creds.api_key
        /\ Headers["POLY_PASSPHRASE"] = params.api_creds.passphrase
        /\ Headers["POLY_TIMESTAMP"] \in {to_string(NatToBig(t)) : t \in Clock}
        /\ LET message == Headers["POLY_TIMESTAMP"] \o params.method \o params.req_path
                          \o (IF params.body.some THEN CompactJson(params.body.v)
                              ELSE <<>>)
               key == SecretBytes(params.api_creds.secret)
           IN  /\ result.mac.key = key
               /\ result.mac.message = message
               /\ Headers["POLY_SIGNATURE"] =
                      URL_SAFE_encode(HmacSha256(key, as_bytes(message)))
        /\ (/\ params.api_creds.secret = <<"Y", "Q", "=", "=">>
            /\ result.mac.message = <<"0", "G", "E", "T", "/", "o", "r", "d", "e", "r">>) =>
               Headers["POLY_SIGNATURE"] = GoldenSignatureA
        /\ (/\ params.body = Some(ControlBody)
            /\ params.method = <<"P", "O", "S", "T">>
            /\ params.req_path = <<"/", "o", "r", "d", "e", "r">>
            /\ Headers["POLY_TIMESTAMP"] = <<"1", "7", "6", "1", "8", "6", "8", "8", "0", "0">>) =>
               Headers["POLY_SIGNATURE"] = GoldenSignatureC
        /\ (/\ params.body = Some(PostOrderBody("Gtc"))
            /\ params.method = <<"P", "O", "S", "T">>
            /\ params.req_path = <<"/", "o", "r", "d", "e", "r">>
            /\ Headers["POLY_TIMESTAMP"] = <<"9", "9", "9", "9", "9", "9", "9", "9", "9">>) =>
               Headers["POLY_SIGNATURE"] = GoldenSignatureD
        /\ (/\ params.body = Some(MixedBody)
            /\ params.method = <<"G", "E", "T">>
            /\ params.req_path = <<"/", "o", "k">>
            /\ Headers["POLY_TIMESTAMP"] = <<"0">>) =>
               Headers["POLY_SIGNATURE"] = GoldenSignatureE
        /\ (/\ params.body = Some(PostOrderBody("Fak"))
            /\ params.method = <<"P", "O", "S", "T">>
            /\ params.req_path = <<"/", "o", "r", "d", "e", "r">>
            /\ Headers["POLY_TIMESTAMP"] = <<"0">>) =>
               Headers["POLY_SIGNATURE"] = GoldenSignatureF

C12_Witness ==
    /\ ReturnedOk
    /\ params.body = Some(OrderBody)
    /\ params.api_creds.secret = <<"c", "2", "V", "j", "c", "m", "V", "0">>
    /\ params.method = <<"P", "O", "S", "T">>
    /\ Headers["POLY_TIMESTAMP"] = <<"1", "7", "6", "1", "8", "6", "8", "8", "0", "0">>
    /\ result.mac.key = <<115, 101, 99, 114, 101, 116>>
    /\ Len(result.mac.message) = 10 + 4 + 6 + 37
    /\ params.req_path = <<"/", "o", "r", "d", "e", "r">>
    /\ Headers["POLY_SIGNATURE"] = GoldenSignatureB

C12_WitnessNoBody ==
    /\ ReturnedOk
    /\ ~params.body.some
    /\ result.mac.message = <<"0", "G", "E", "T", "/", "o", "k">>

\* A body with control characters and non-ASCII characters has been signed:
\* the message carries the escapes, the MAC is over its UTF-8 bytes
C12_WitnessControl ==
    /\ ReturnedOk
    /\ params.body = Some(ControlBody)
    /\ params.method = <<"P", "O", "S", "T">>
    /\ params.req_path = <<"/", "o", "r", "d", "e", "r">>
    /\ Headers["POLY_TIMESTAMP"] = <<"1", "7", "6", "1", "8", "6", "8", "8", "0", "0">>
    /\ SubSeq(result.mac.message, 21, 34) =
           <<"\"", "a", "\\", "n", "\\", "t", "\\", "u", "0", "0", "0", "1", "\\", "\"">>
    /\ Len(as_bytes(result.mac.message)) = Len(result.mac.message) + 1 + 2 + 3
    /\ Headers["POLY_SIGNATURE"] = GoldenSignatureC

\* The body of post_order has been signed
C12_WitnessPostOrder ==
    /\ ReturnedOk
    /\ params.body = Some(PostOrderBody("Gtc"))
    /\ params.method = <<"P", "O", "S", "T">>
    /\ params.req_path = <<"/", "o", "r", "d", "e", "r">>
    /\ Headers["POLY_TIMESTAMP"] = <<"9", "9", "9", "9", "9", "9", "9", "9", "9">>
    /\ Len(result.mac.message) = 9 + 4 + 6 + 543
    /\ Headers["POLY_SIGNATURE"] = GoldenSignatureD

\* A body of nested arrays, objects, null, integers and floats has been signed
C12_WitnessMixed ==
    /\ ReturnedOk
    /\ params.body = Some(MixedBody)
    /\ params.method = <<"G", "E", "T">>
    /\ params.req_path = <<"/", "o", "k">>
    /\ Headers["POLY_TIMESTAMP"] = <<"0">>
    /\ Len(result.mac.message) = 1 + 3 + 3 + 198
    /\ SubSeq(result.mac.message, 153, 157) = <<"1", "e", "+", "2", "1">>
    /\ Headers["POLY_SIGNATURE"] = GoldenSignatureE

\* A fill-and-kill body of post_order has been signed
C12_WitnessFak ==
    /\ ReturnedOk
    /\ params.body = Some(PostOrderBody("Fak"))
    /\ params.method = <<"P", "O", "S", "T">>
    /\ params.req_path = <<"/", "o", "r", "d", "e", "r">>
    /\ Headers["POLY_TIMESTAMP"] = <<"0">>
    /\ Headers["POLY_SIGNATURE"] = GoldenSignatureF

\* A text of base64url symbols only, of a length a whole number of bytes
\* encodes to, with no unused bits set: base64url without padding
UnpaddedBase64Url(secret) ==
    /\ \A i \in 1..Len(secret) : IsB64Char(secret[i])
    /\ Len(secret) % 4 # 1
    /\ Len(secret) % 4 = 2 => B64Index(secret[Len(secret)]) % 16 = 0
    /\ Len(secret) % 4 = 3 => B64Index(secret[Len(secret)]) % 4 = 0

\* No text of base64url, padded or not
InvalidBase64Url(secret) ==
    \/ \E i \in 1..(Len(secret) - TrailingPads(secret)) : ~IsB64Char(secret[i])
    \/ (Len(secret) - TrailingPads(secret)) % 4 = 1

BodySerializes == ~params.body.some \/ to_json(params.body.v).ok

\* C13: build_hmac_signature treats the secret and the signature as
\* URL-safe base64 without padding: every unpadded base64url secret,
\* whatever its length modulo 4, is decoded and accepted; the signature holds
\* no '='; a secret that is no base64url yields an error.
C13_UnpaddedBase64 ==
    pc = "returned" =>
        /\ (UnpaddedBase64Url(params.api_creds.secret) /\ BodySerializes) => result.ok
        /\ result.ok => \A i \in 1..Len(Headers["POLY_SIGNATURE"]) :
                            Headers["POLY_SIGNATURE"][i] # "="
        /\ InvalidBase64Url(params.api_creds.secret) => ~result.ok

\* ------------------------------------------------------------------------
\* L1 headers (SpecL1)
\* ------------------------------------------------------------------------

\* The ClobAuth struct and the domain under which it was signed
SignedAuth == Headers["POLY_SIGNATURE"].hash.message

AuthDomain == Headers["POLY_SIGNATURE"].hash.domain

\* The decimal text of a small natural number, digit by digit
DecimalOf(n) ==
    LET len == CHOOSE k \in 1..10 : (k = 10 \/ n < Pow10(k)) /\ (k = 1 \/ n >= Pow10(k - 1))
    IN  [i \in 1..len |-> DigitChars[((n \div Pow10(len - i)) % 10) + 1]]

\* C14: create_l1_headers returns exactly the four headers POLY_ADDRESS,
\* POLY_SIGNATURE, POLY_TIMESTAMP and POLY_NONCE, and their values are the
\* ones signed: the timestamp text is the one in the ClobAuth struct, the
\* nonce is the decimal text of the signed nonce (0 if none was given), the
\* address is that of the signing key, which is the struct's address; the
\* struct's message is the fixed attestation text, and the domain is
\* ("ClobAuthDomain", "1", the given chain id).
C14_L1Headers ==
    ReturnedOk =>
        /\ DOMAIN Headers = {"POLY_ADDRESS", "POLY_SIGNATURE", "POLY_TIMESTAMP", "POLY_NONCE"}
        /\ Headers["POLY_SIGNATURE"].by = params.signer.key
        /\ Headers["POLY_TIMESTAMP"] = SignedAuth.timestamp
        /\ Headers["POLY_TIMESTAMP"] \in {DecimalOf(t) : t \in Clock}
        /\ Headers["POLY_NONCE"] =
               DecimalOf(IF params.nonce.some THEN params.nonce.v ELSE 0)
        /\ Headers["POLY_NONCE"] = to_string(SignedAuth.nonce)
        /\ Headers["POLY_ADDRESS"] = params.signer.hex
        /\ SignedAuth.address = params.signer.address
        /\ SignedAuth.message = "This message attests that I control the given wallet"
        /\ AuthDomain = [name |-> "ClobAuthDomain", version |-> "1",
                         chain_id |-> params.chain_id]

C14_Witness ==
    /\ ReturnedOk
    /\ params.nonce = Some(7)
    /\ params.chain_id = 80002
    /\ params.signer = Wallet3
    /\ Headers["POLY_NONCE"] = <<"7">>
    /\ Headers["POLY_TIMESTAMP"] = <<"9", "9", "9", "9", "9", "9", "9", "9", "9">>
    /\ SignedAuth.timestamp = <<"9", "9", "9", "9", "9", "9", "9", "9", "9">>
    /\ AuthDomain.chain_id = 80002

C14_WitnessNoNonce ==
    /\ ReturnedOk
    /\ ~params.nonce.some
    /\ Headers["POLY_NONCE"] = <<"0">>
    /\ SignedAuth.nonce = <<0>>

\* ------------------------------------------------------------------------
\* Tick size strings (SpecTick)
\* ------------------------------------------------------------------------

TickAccepted == TickSize_from_str(params.tick_size).ok

\* C15: TickSize::from_str accepts exactly "0.1", "0.01", "0.001" and
\* "0.0001" and returns an error for every other string ("0.00001", "1",
\* "0.10", " 0.1" and "" among them); create_order with a rejected string
\* returns an error before it computes amounts, generates a salt or signs.
C15_TickStrings ==
    /\ TickAccepted <=> params.tick_size \in {"0.1", "0.01", "0.001", "0.0001"}
    /\ params.tick_size = "0.1" => TickSize_from_str(params.tick_size).v = "Tenth"
    /\ params.tick_size = "0.01" => TickSize_from_str(params.tick_size).v = "Hundredth"
    /\ params.tick_size = "0.001" => TickSize_from_str(params.tick_size).v = "Thousandth"
    /\ params.tick_size = "0.0001" => TickSize_from_str(params.tick_size).v = "TenThousandth"
    /\ (pc # "ready" /\ params.tick_size \notin {"0.1", "0.01", "0.001", "0.0001"}) =>
           /\ ReturnedErr
           /\ result.err = "invalid tick size"
           /\ amounts = NoAmounts
           /\ trail = <<"tick_size">>
    /\ (pc # "ready" /\ params.tick_size \in {"0.1", "0.01", "0.001", "0.0001"}) =>
           /\ amounts.done
           /\ Len(trail) >= 2

C15_Witness ==
    /\ ReturnedErr
    /\ params.tick_size = "0.10"
    /\ trail = <<"tick_size">>
    /\ amounts = NoAmounts

C15_WitnessAccepted ==
    /\ ReturnedOk
    /\ params.tick_size = "0.0001"
    /\ amounts.done

\* ------------------------------------------------------------------------
\* Market buys at prices up to 1 (SpecBuy)
\* ------------------------------------------------------------------------

\* The rounded price is in (0, 1]
PriceUpToOne ==
    /\ ~amounts.raw_price.neg
    /\ ~BigIsZero(amounts.raw_price.m)
    /\ BigLe(Strip(amounts.raw_price.m), BigShift(<<1>>, amounts.raw_price.scale))

\* t = floor(10^a * n / (100 * price)) for price = pm / 10^s:
\*   t * pm  <=  n * 10^(s + a - 2)  <  (t + 1) * pm
FloorQuotient(t, n, pm, s, a) ==
    LET y == BigShift(NatToBig(n), s + a - 2)
    IN  /\ BigLe(Strip(BigMul(t, pm)), y)
        /\ BigLt(y, Strip(BigMul(BigAdd(t, <<1>>), pm)))

\* C16: whenever a MarketBuy with side Buy returns and the rounded price is in
\* (0, 1], on any tick, the rounding away from zero at amount_decimals + 4
\* has not carried into the digits kept: taker is the exact quotient
\* maker / price truncated to amount_decimals, and so taker * price <= maker.
C16_NoCarryUpToOne ==
    (Calculated /\ CallArm = "MarketBuy" /\ PriceUpToOne) =>
        /\ TakerAtAmount.r = 0
        /\ FloorQuotient(TakerAtAmount.q, Hundredths(params.kind.amount),
                         amounts.raw_price.m, amounts.raw_price.scale, CallCfg.amount)
        /\ BigLe(Strip(BigMul(amounts.ret.taker, amounts.raw_price.m)),
                 BigShift(amounts.ret.maker, amounts.raw_price.scale))

\* 99.98 at 0.9999, tick 0.0001: the quotient 99.98999899989998... rounds
\* away to 99.9899989999 and truncates to 99.989998, the floor.
C16_Witness ==
    /\ Calculated
    /\ CallArm = "MarketBuy"
    /\ params.price = Dec(9999, 4)
    /\ params.kind.amount = Dec(9998, 2)
    /\ params.tick_size = "0.0001"
    /\ amounts.ret.maker = <<9,9,9,8,0,0,0,0>>
    /\ amounts.ret.taker = <<9,9,9,8,9,9,9,8>>

====
